---- MODULE Spec2Model ----
(***************************************************************************)
(* A model of flagscale/launcher/runner.py: hostfile parsing, the          *)
(* negotiation of nnodes / nproc_per_node, the synthesis of the per-host   *)
(* launch command, run script and stop script, and the sequential dispatch *)
(* performed by SSHRunner.run(), SSHRunner.stop() and CloudRunner.run().   *)
(*                                                                         *)
(* Text is modelled as sequences of one-character strings, so that the     *)
(* regular expression of parse_hostfile, str.strip, str.split and int()    *)
(* are computed character by character.  Python's None is the empty        *)
(* sequence and a present value x is <<x>>.                                *)
(***************************************************************************)
EXTENDS Integers, Sequences, FiniteSets, TLC

VARIABLES
    hostfile,     \* the hostfile on disk: [path, lines]
    hf_entries,   \* how the lines of the hostfile were written (entry by entry)
    parsed,       \* outcome of a parse_hostfile call: [status, resources, error]
    neg_in,       \* arguments of a call of _get_nnodes / _get_nproc_per_node
    neg_ret,      \* what that call returned or raised: [fn, raised, v]
    config,       \* the runner object's configuration (self.config) and its class
    pc,           \* where the runner is: new, idle, loop, ssh_mkdir, scp, ...
    args,         \* the arguments of the running run(): [with_test, dryrun]
    locals,       \* run()'s locals: [nnodes, ip, port]
    rank,         \* node_rank of the for loop of run()
    cur,          \* the _run_each / _stop_each in progress: [host, node_rank,
                  \* script, after, op]
    calls,        \* the run_*_command calls made so far, in order
    files,        \* the local file system: path -> content of a generated script
    clock,        \* the reading datetime.now() gives
    port_allocs,  \* how many times get_free_port() was called
    error,        \* the exception that ended __init__ or run(), or "none"
    writes,       \* the scripts the running run() has written: [path, content]
    prev,         \* the previous run() of the same runner: [done, args, writes,
                  \* calls]
    gen_in        \* arguments of direct calls of the script generators

parse_vars == <<hostfile, hf_entries, parsed>>
neg_vars == <<neg_in, neg_ret>>
run_vars == <<config, pc, args, locals, rank, cur, calls, files, clock,
              port_allocs, error, writes, prev>>
vars == <<hostfile, hf_entries, parsed, neg_in, neg_ret, config, pc, args,
          locals, rank, cur, calls, files, clock, port_allocs, error, writes, prev,
          gen_in>>

---------------------------------------------------------------------------
(* Bounds of the model. *)

\* longest hostfile (in lines) of the parsing specification
MaxLines == 3

\* largest node / slot / device count of the negotiation specification
MaxCount == 3

\* longest hostfile (in lines) a runner is constructed over
MaxHosts == 3

\* last reading of the clock
MaxClock == 1

---------------------------------------------------------------------------
(* Python values. *)

None == <<>>
Some(x) == <<x>>
IsNone(o) == o = <<>>
Val(o) == o[1]

\* str values are sequences of characters; int values are integers.  A value
\* whose Python type matters is tagged.
IntV(n) == [t |-> "int", n |-> n, s |-> <<>>]
StrV(s) == [t |-> "str", n |-> 0, s |-> s]
BoolV(b) == [t |-> "bool", n |-> IF b THEN 1 ELSE 0, s |-> <<>>]

WS == {" ", "\t"}
DigitChars == <<"0", "1", "2", "3", "4", "5", "6", "7", "8", "9">>
Digits == {DigitChars[i] : i \in 1..10}
DigitVal(c) == (CHOOSE i \in 1..10 : DigitChars[i] = c) - 1

\* str.lstrip / str.rstrip / str.strip with no argument
RECURSIVE lstrip(_)
lstrip(s) == IF s # <<>> /\ Head(s) \in WS THEN lstrip(Tail(s)) ELSE s

RECURSIVE rstrip(_)
rstrip(s) ==
    IF s # <<>> /\ s[Len(s)] \in WS THEN rstrip(SubSeq(s, 1, Len(s) - 1)) ELSE s

strip(s) == rstrip(lstrip(s))

startswith(s, p) == Len(s) >= Len(p) /\ SubSeq(s, 1, Len(p)) = p

\* int(s) for a string of decimal digits
RECURSIVE int(_)
int(s) ==
    IF s = <<>> THEN 0
    ELSE int(SubSeq(s, 1, Len(s) - 1)) * 10 + DigitVal(s[Len(s)])

\* f"{n}" for a non-negative integer
RECURSIVE str(_)
str(n) ==
    IF n < 10 THEN <<DigitChars[n + 1]>>
    ELSE str(n \div 10) \o <<DigitChars[(n % 10) + 1]>>

---------------------------------------------------------------------------
(* The regular expression of parse_hostfile,                               *)
(*     ^(\S+)\s+slots=(\d+)(?:\s+type=(\S+))?                              *)
(* matched with pattern.search.  Every quantifier is greedy and each is    *)
(* followed by text it cannot itself match, so the only match takes each   *)
(* run whole; the pattern has no end anchor, so text after the last        *)
(* recognised field is not inspected.                                      *)

\* length of the longest run of characters from position i that are in C
\* (inC = TRUE) or not in C (inC = FALSE)
RECURSIVE Run(_, _, _, _)
Run(s, i, C, inC) ==
    IF i <= Len(s) /\ ((s[i] \in C) = inC) THEN 1 + Run(s, i + 1, C, inC) ELSE 0

HasAt(s, i, lit) ==
    /\ i + Len(lit) - 1 <= Len(s)
    /\ SubSeq(s, i, i + Len(lit) - 1) = lit

LitSlots == <<"s", "l", "o", "t", "s", "=">>
LitType == <<"t", "y", "p", "e", "=">>

pattern_search(line) ==
    LET n1 == Run(line, 1, WS, FALSE)            \* (\S+)
        p2 == 1 + n1
        n2 == Run(line, p2, WS, TRUE)            \* \s+
        p3 == p2 + n2
        p4 == p3 + Len(LitSlots)
        n4 == Run(line, p4, Digits, TRUE)        \* (\d+)
        p5 == p4 + n4
        n5 == Run(line, p5, WS, TRUE)            \* \s+
        p6 == p5 + n5
        p7 == p6 + Len(LitType)
        n7 == Run(line, p7, WS, FALSE)           \* (\S+)
        m  == n1 >= 1 /\ n2 >= 1 /\ HasAt(line, p3, LitSlots) /\ n4 >= 1
        opt == n5 >= 1 /\ HasAt(line, p6, LitType) /\ n7 >= 1
    IN  IF m
        THEN [match |-> TRUE,
              g1 |-> SubSeq(line, 1, n1),
              g2 |-> SubSeq(line, p4, p5 - 1),
              g3 |-> IF opt THEN Some(SubSeq(line, p7, p7 + n7 - 1)) ELSE None]
        ELSE [match |-> FALSE, g1 |-> <<>>, g2 |-> <<>>, g3 |-> None]

---------------------------------------------------------------------------
(* collections.OrderedDict as a sequence of [host, slots, type] items in   *)
(* insertion order.                                                        *)

Keys(d) == [i \in 1..Len(d) |-> d[i].host]

\* mutant: the membership test never finds the host
HasKey_never(d, k) == FALSE

\* host in resources
HasKey(d, k) == \E i \in 1..Len(d) : d[i].host = k

\* mutant: the new entry is put in front of the table
DictSet_prepend(d, item) == <<item>> \o d

\* resources[host] = {...}: a new key is appended, an existing key keeps its
\* position and takes the new value
DictSet(d, item) ==
    IF HasKey(d, item.host)
    THEN [i \in 1..Len(d) |-> IF d[i].host = item.host THEN item ELSE d[i]]
    ELSE Append(d, item)

---------------------------------------------------------------------------
(* parse_hostfile *)

Returned(res) == [status |-> "table", resources |-> res, error |-> "none"]
ReturnedNone == [status |-> "none", resources |-> <<>>, error |-> "none"]
Raised(e) == [status |-> "raised", resources |-> <<>>, error |-> e]

\* the for loop over hostfile_lines, from line i on, with the table so far
RECURSIVE parse_lines(_, _, _)
parse_lines(lines, i, resources) ==
    IF i > Len(lines)
    THEN IF Len(resources) = 0 THEN Raised("EmptyHostfile")
         ELSE Returned(resources)
    ELSE LET line == strip(lines[i])
             match == pattern_search(line)
         IN  IF startswith(line, <<"#">>) \/ line = <<>>
             THEN parse_lines(lines, i + 1, resources)
             ELSE IF match.match
             THEN LET host == match.g1
                      num_slots == int(match.g2)
                      machine_type == match.g3
                  IN  IF HasKey(resources, host)
                      THEN Raised("DuplicateHost")
                      ELSE parse_lines(lines, i + 1,
                               DictSet(resources,
                                   [host |-> host, slots |-> num_slots,
                                    type |-> machine_type]))
             ELSE Raised("InvalidHostfileEntry")

\* mutant: only a missing path is noticed, not a path that is no file
path_usable_any(hf) == hf.path # "absent"

\* hostfile_path is None, or names something that is not a regular file
path_usable(hf) == hf.path = "file"

parse_hostfile(hf) ==
    IF ~path_usable(hf) THEN ReturnedNone
    ELSE parse_lines(hf.lines, 1, <<>>)

---------------------------------------------------------------------------
(* str.split(sep) for a one-character separator, ":" in s, and int(x) for  *)
(* an int or a str argument (surrounding whitespace allowed, decimal       *)
(* digits only; anything else raises ValueError).                          *)

RECURSIVE split(_, _)
split(s, sep) ==
    LET n == Run(s, 1, {sep}, FALSE)
    IN  IF n = Len(s) THEN <<s>>
        ELSE <<SubSeq(s, 1, n)>> \o split(SubSeq(s, n + 2, Len(s)), sep)

Contains(s, c) == \E i \in 1..Len(s) : s[i] = c

IsStr(v) == v.t = "str"

IntOk(v) ==
    \/ v.t = "int"
    \/ LET d == strip(v.s) IN d # <<>> /\ \A i \in 1..Len(d) : d[i] \in Digits

IntOf(v) == IF v.t = "int" THEN v.n ELSE int(strip(v.s))

\* mutant: the larger of the two is taken
Min_larger(a, b) == IF a <= b THEN b ELSE a

\* min(a, b)
Min(a, b) == IF a <= b THEN a ELSE b

Ret(v) == [raised |-> "none", v |-> v]
Raise(e) == [raised |-> e, v |-> IntV(0)]

\* bool(x) of an optional count: None and 0 are false
Truthy(o) == ~IsNone(o) /\ Val(o) # 0

---------------------------------------------------------------------------
(* _get_nnodes(nnodes_from_hostfile, nnodes_from_args).  nnodes_from_args  *)
(* is None, an int or a str; the hostfile count is None or an int.         *)

\* mutant: the max part of the range is kept
nnodes_arg_max(a) ==
    IF IsStr(a) /\ Contains(a.s, ":")
    THEN LET parts == split(a.s, ":")
         IN  IF Len(parts) = 2 THEN Ret(StrV(parts[2])) ELSE Raise("ValueError")
    ELSE Ret(a)

\* nnodes_from_args, _ = nnodes_from_args.split(":") when it is a str holding
\* ":"; otherwise nnodes_from_args itself
nnodes_arg_min(a) ==
    IF IsStr(a) /\ Contains(a.s, ":")
    THEN LET parts == split(a.s, ":")
         IN  IF Len(parts) = 2 THEN Ret(StrV(parts[1])) ELSE Raise("ValueError")
    ELSE Ret(a)

_get_nnodes(nnodes_from_hostfile, nnodes_from_args) ==
    IF IsNone(nnodes_from_hostfile) /\ IsNone(nnodes_from_args)
    THEN Raise("AssertionError")
    ELSE IF ~IsNone(nnodes_from_hostfile) /\ ~IsNone(nnodes_from_args)
    THEN LET a == nnodes_arg_min(Val(nnodes_from_args))
         IN  IF a.raised # "none" THEN a
             ELSE IF ~IntOk(a.v) THEN Raise("ValueError")
             ELSE Ret(IntV(Min(Val(nnodes_from_hostfile), IntOf(a.v))))
    ELSE IF ~IsNone(nnodes_from_hostfile)
    THEN Ret(IntV(Val(nnodes_from_hostfile)))
    ELSE LET a == nnodes_arg_min(Val(nnodes_from_args))
         IN  IF a.raised # "none" THEN a
             ELSE IF ~IntOk(a.v) THEN Raise("ValueError")
             ELSE Ret(IntV(IntOf(a.v)))

---------------------------------------------------------------------------
(* _get_nproc_per_node(nproc_from_hostfile, nproc_from_args,               *)
(*                     num_visible_devices)                                *)

_get_nproc_per_node(nproc_from_hostfile, nproc_from_args, num_visible_devices) ==
    IF ~IsNone(nproc_from_hostfile) /\ ~IsNone(nproc_from_args)
    THEN IF ~IntOk(Val(nproc_from_args)) THEN Raise("ValueError")
         ELSE LET nproc == Min(Val(nproc_from_hostfile), IntOf(Val(nproc_from_args)))
              IN  IF Truthy(num_visible_devices)
                  THEN Ret(IntV(Min(nproc, Val(num_visible_devices))))
                  ELSE Ret(IntV(nproc))
    ELSE IF ~IsNone(nproc_from_hostfile)
    THEN IF Truthy(num_visible_devices)
         THEN Ret(IntV(Min(Val(nproc_from_hostfile), Val(num_visible_devices))))
         ELSE Ret(IntV(Val(nproc_from_hostfile)))
    ELSE IF ~IsNone(nproc_from_args)
    THEN IF Truthy(num_visible_devices)
         THEN IF ~IntOk(Val(nproc_from_args)) THEN Raise("ValueError")
              ELSE Ret(IntV(Min(IntOf(Val(nproc_from_args)), Val(num_visible_devices))))
         ELSE Ret(Val(nproc_from_args))        \* returned as given, not int()
    ELSE IF Truthy(num_visible_devices)
         THEN Ret(IntV(Val(num_visible_devices)))
         ELSE Ret(IntV(1))

---------------------------------------------------------------------------
(* Dictionaries (DictConfig, dict) as sequences of [k, v] pairs in         *)
(* insertion order, and the formatting of values.                          *)

dhas(d, k) == \E i \in 1..Len(d) : d[i].k = k

\* d.get(k, default)
dget(d, k, default) ==
    IF dhas(d, k) THEN d[CHOOSE i \in 1..Len(d) : d[i].k = k].v ELSE default

\* d.get(k, None) as an optional value
dopt(d, k) ==
    IF dhas(d, k) THEN Some(d[CHOOSE i \in 1..Len(d) : d[i].k = k].v) ELSE None

\* del d[k]
ddel(d, k) == SelectSeq(d, LAMBDA kv : kv.k # k)

\* d[k] = v
dset(d, k, v) ==
    IF dhas(d, k)
    THEN [i \in 1..Len(d) |-> IF d[i].k = k THEN [k |-> k, v |-> v] ELSE d[i]]
    ELSE Append(d, [k |-> k, v |-> v])

\* mutant: no value counts as true
IsTrue_never(v) == FALSE

\* bool(v)
IsTrue(v) ==
    CASE v.t = "bool" -> v.n = 1
      [] v.t = "int" -> v.n # 0
      [] v.t = "str" -> v.s # <<>>

\* f"{v}"
fmt(v) ==
    CASE v.t = "int" -> str(v.n)
      [] v.t = "str" -> v.s
      [] v.t = "bool" -> IF v.n = 1 THEN <<"T", "r", "u", "e">>
                         ELSE <<"F", "a", "l", "s", "e">>

\* os.path.join(a, b) for a relative b
join(a, b) == a \o <<"/">> \o b

Localhost == <<"l", "o", "c", "a", "l", "h", "o", "s", "t">>
Torchrun == <<"t", "o", "r", "c", "h", "r", "u", "n">>
DefaultId == <<"d", "e", "f", "a", "u", "l", "t">>
C10d == <<"c", "1", "0", "d">>
HostWord == <<"h", "o", "s", "t">>

\* datetime.now().strftime("%Y%m%d_%H%M%S.%f") at clock reading t
strftime(t) == <<"T">> \o str(t)

---------------------------------------------------------------------------
(* _update_config: the directories derived from the experiment directory   *)
(* (no checkpoint / logging directory is configured).                      *)

ExpDir == <<"/", "e">>
LogDir == join(ExpDir, <<"l", "o", "g", "s">>)
ScriptsDir == join(LogDir, <<"s", "c", "r", "i", "p", "t", "s">>)
PidsDir == join(LogDir, <<"p", "i", "d", "s">>)
DetailsDir == join(LogDir, <<"d", "e", "t", "a", "i", "l", "s">>)

---------------------------------------------------------------------------
(* _get_runner_cmd.  The command is a sequence of tokens: a flag token     *)
(* --<key> or a text token.  now is the reading of the clock.              *)

Flag(key) == [kind |-> "flag", key |-> key, text |-> <<>>]
Text(s) == [kind |-> "text", key |-> "", text |-> s]
Env(key, s) == [kind |-> "env", key |-> key, text |-> s]

\* mutant: master_addr and master_port are not deleted
ExcludedKeys_short == <<"type", "backend", "per_node_task", "hostfile">>

\* the keys deleted from runner_args
ExcludedKeys ==
    <<"type", "backend", "per_node_task", "hostfile", "master_addr", "master_port">>

RECURSIVE del_all(_, _)
del_all(d, ks) == IF ks = <<>> THEN d ELSE del_all(ddel(d, Head(ks)), Tail(ks))

RECURSIVE set_all(_, _)
set_all(d, kvs) ==
    IF kvs = <<>> THEN d ELSE set_all(dset(d, Head(kvs).k, Head(kvs).v), Tail(kvs))

\* for key, value in runner_args.items(): ...
RECURSIVE args_tokens(_)
args_tokens(d) ==
    IF d = <<>> THEN <<>>
    ELSE LET kv == Head(d)
         IN  (IF kv.v.t = "bool"
              THEN (IF kv.v.n = 1 THEN <<Flag(kv.k)>> ELSE <<>>)
              ELSE <<Flag(kv.k), Text(fmt(kv.v))>>)
             \o args_tokens(Tail(d))

\* mutant: the port is left out of the endpoint
default_rdzv_endpoint_noport(master_addr, master_port) == StrV(fmt(master_addr))

\* f"{master_addr}:{master_port}", the default of rdzv_endpoint
default_rdzv_endpoint(master_addr, master_port) ==
    StrV(fmt(master_addr) \o <<":">> \o fmt(master_port))

_get_runner_cmd(host, master_addr0, master_port, nnodes0, node_rank0, nproc_per_node, cfg, now) ==
    LET runner_config == cfg.runner
        per_node == IsTrue(dget(runner_config, "per_node_task", BoolV(FALSE)))
        nnodes == IF per_node THEN IntV(1) ELSE nnodes0
        node_rank == IF per_node THEN IntV(0) ELSE node_rank0
        master_addr == IF per_node THEN StrV(Localhost) ELSE master_addr0
        rdzv_id == dget(runner_config, "rdzv_id", StrV(DefaultId))
        log_dir0 == fmt(dget(runner_config, "log_dir", StrV(DetailsDir)))
        no_shared_fs == IsTrue(cfg.exp_no_shared_fs)
        log_dir1 == IF no_shared_fs THEN join(log_dir0, HostWord)
                    ELSE join(log_dir0,
                              HostWord \o <<"_">> \o fmt(node_rank) \o <<"_">> \o host)
        log_dir == join(log_dir1, strftime(now))
        rdzv_backend == dget(runner_config, "rdzv_backend", StrV(C10d))
        rdzv_endpoint == dget(runner_config, "rdzv_endpoint",
                              default_rdzv_endpoint(master_addr, master_port))
        redirect == dget(runner_config, "redirects", StrV(<<"3">>))
        tee == dget(runner_config, "tee", StrV(<<"3">>))
        backend == dget(runner_config, "backend", StrV(Torchrun))
        runner_args == set_all(del_all(runner_config, ExcludedKeys),
            << [k |-> "rdzv_id", v |-> rdzv_id],
               [k |-> "nnodes", v |-> nnodes],
               [k |-> "node_rank", v |-> node_rank],
               [k |-> "nproc_per_node", v |-> nproc_per_node],
               [k |-> "rdzv_backend", v |-> rdzv_backend],
               [k |-> "rdzv_endpoint", v |-> rdzv_endpoint],
               [k |-> "log_dir",
                v |-> StrV(IF backend = StrV(Torchrun) THEN log_dir
                           ELSE join(log_dir, fmt(rdzv_id)))],
               [k |-> "redirects", v |-> redirect],
               [k |-> "tee", v |-> tee] >>)
    IN  <<Text(fmt(backend))>> \o args_tokens(runner_args)

\* the text that follows --<key> in a command (<<>> when the flag is absent
\* or is the last token)
RECURSIVE FlagValue(_, _)
FlagValue(cmd, key) ==
    IF Len(cmd) < 2 THEN <<>>
    ELSE IF cmd[1].kind = "flag" /\ cmd[1].key = key THEN cmd[2].text
    ELSE FlagValue(Tail(cmd), key)

---------------------------------------------------------------------------
(* _generate_run_script: the path of the script and what is written there. *)

host_file(dir, node_rank, host, suffix) ==
    join(dir, HostWord \o <<"_">> \o fmt(node_rank) \o <<"_">> \o host \o suffix)

RunSuffix == <<"_", "r", "u", "n", ".", "s", "h">>
OutputSuffix == <<".", "o", "u", "t", "p", "u", "t">>
PidSuffix == <<".", "p", "i", "d">>

\* mutant: the rank is left out of the script name
host_run_script_file_norank(node_rank, host) ==
    join(ScriptsDir, HostWord \o <<"_">> \o host \o RunSuffix)

host_run_script_file(node_rank, host) ==
    host_file(ScriptsDir, node_rank, host, RunSuffix)

\* mutant: the pid is recorded whenever the output is redirected
run_script_content_pid(cfg, host, node_rank, cmd, background, with_test) ==
    LET no_shared_fs == IsTrue(dget(cfg.runner, "no_shared_fs", BoolV(FALSE)))
        host_output_file ==
            IF no_shared_fs THEN join(LogDir, HostWord \o OutputSuffix)
            ELSE host_file(LogDir, node_rank, host, OutputSuffix)
        host_pid_file == host_file(PidsDir, node_rank, host, PidSuffix)
    IN  [before_start |-> cfg.before_start,
         cmd |-> cmd,
         clause |-> IF with_test THEN "test"
                    ELSE IF background THEN "background" ELSE "blocking",
         output_file |-> IF with_test THEN <<>> ELSE host_output_file,
         pid_file |-> IF ~with_test THEN host_pid_file ELSE <<>>,
         mode |-> "755"]

\* the content of the run script: the before_start hook, the command and
\* the execution clause (the directory set-up lines depend on nothing that
\* varies here)
run_script_content(cfg, host, node_rank, cmd, background, with_test) ==
    LET no_shared_fs == IsTrue(dget(cfg.runner, "no_shared_fs", BoolV(FALSE)))
        host_output_file ==
            IF no_shared_fs THEN join(LogDir, HostWord \o OutputSuffix)
            ELSE host_file(LogDir, node_rank, host, OutputSuffix)
        host_pid_file == host_file(PidsDir, node_rank, host, PidSuffix)
    IN  [before_start |-> cfg.before_start,
         cmd |-> cmd,
         clause |-> IF with_test THEN "test"
                    ELSE IF background THEN "background" ELSE "blocking",
         output_file |-> IF with_test THEN <<>> ELSE host_output_file,
         pid_file |-> IF ~with_test /\ background THEN host_pid_file ELSE <<>>,
         mode |-> "755"]

\* mutant: the script is opened for appending, the command added to the one
\* already there
_generate_run_script_append(fs, cfg, host, node_rank, cmd, background, with_test) ==
    LET path == host_run_script_file(node_rank, host)
        content == run_script_content(cfg, host, node_rank, cmd, background, with_test)
    IN  [q \in (DOMAIN fs) \cup {path} |->
            IF q # path THEN fs[q]
            ELSE IF path \in DOMAIN fs
            THEN [content EXCEPT !.cmd = fs[path].cmd \o @]
            ELSE content]

\* open(host_run_script_file, "w") ... os.chmod(...): the file system after
\* the call
_generate_run_script(fs, cfg, host, node_rank, cmd, background, with_test) ==
    LET path == host_run_script_file(node_rank, host)
        content == run_script_content(cfg, host, node_rank, cmd, background, with_test)
    IN  [q \in (DOMAIN fs) \cup {path} |-> IF q = path THEN content ELSE fs[q]]

---------------------------------------------------------------------------
(* _generate_stop_script: the path of the stop script and the statements   *)
(* written there, in order.                                                *)

StopSuffix == <<"_", "s", "t", "o", "p", ".", "s", "h">>

host_stop_script_file(node_rank, host) ==
    host_file(ScriptsDir, node_rank, host, StopSuffix)

Stmt(op, arg) == [op |-> op, arg |-> arg]

\* if [ -f <pid file> ]; then pid=$(cat <pid file>); pkill -P $pid;
\* else pkill -f 'torchrun'; fi; <after_stop>
stop_script_content(cfg, host, node_rank) ==
    LET host_pid_file == host_file(PidsDir, node_rank, host, PidSuffix)
    IN  [lines |-> << Stmt("if_file", host_pid_file),
                      Stmt("pid_from", host_pid_file),
                      Stmt("pkill_P_pid", <<>>),
                      Stmt("else", <<>>),
                      Stmt("pkill_f", Torchrun),
                      Stmt("fi", <<>>),
                      Stmt("hook", cfg.after_stop) >>,
         mode |-> "755"]

_generate_stop_script(fs, cfg, host, node_rank) ==
    LET path == host_stop_script_file(node_rank, host)
        content == stop_script_content(cfg, host, node_rank)
    IN  [q \in (DOMAIN fs) \cup {path} |-> IF q = path THEN content ELSE fs[q]]

---------------------------------------------------------------------------
(* Hostfiles of the parsing specification: each line is written from an    *)
(* entry.  A host entry is written as <host><sep>slots=<n>[<sep>type=<t>]  *)
(* with the number in decimal; a raw entry is written as it stands.        *)

HostEntry(h, n, ty, sep) ==
    [k |-> "host", host |-> h, slots |-> n, type |-> ty, sep |-> sep, text |-> <<>>]
TextEntry(k, text) ==
    [k |-> k, host |-> <<>>, slots |-> 0, type |-> None, sep |-> <<>>, text |-> text]

RenderEntry(e) ==
    IF e.k = "host"
    THEN e.host \o e.sep \o LitSlots \o str(e.slots)
         \o (IF IsNone(e.type) THEN <<>> ELSE e.sep \o LitType \o Val(e.type))
    ELSE e.text

RenderLines(es) == [i \in 1..Len(es) |-> RenderEntry(es[i])]

Sp == <<" ">>
HostA == <<"a">>
HostB == <<"n", "2">>

ParseEntries ==
    { HostEntry(HostA, 2, None, Sp),
      HostEntry(HostA, 12, Some(<<"A">>), Sp),
      HostEntry(HostB, 4, Some(<<"H">>), <<" ", "\t">>),
      HostEntry(HostB, 0, None, Sp),
      TextEntry("comment", <<"#", "a", " ", "s", "l", "o", "t", "s", "=", "2">>),
      TextEntry("comment", <<" ", "#", " ", "x">>),
      TextEntry("blank", <<>>),
      TextEntry("blank", <<" ", "\t">>),
      TextEntry("raw", HostA),
      TextEntry("raw", HostB \o Sp \o LitSlots),
      TextEntry("raw", HostB \o Sp \o LitSlots \o <<"3", "x">>),
      TextEntry("raw", Sp \o HostB \o Sp \o LitSlots \o <<"3">> \o Sp \o <<"x">>) }

SeqsUpTo(S, n) == UNION {[1..k -> S] : k \in 0..n}

---------------------------------------------------------------------------
(* The parsing specification: a hostfile is written, parse_hostfile reads  *)
(* it.                                                                     *)

Unset == [status |-> "unset", resources |-> <<>>, error |-> "none"]

NegUnset == [fn |-> "none", raised |-> "none", v |-> IntV(0)]
NegIdle ==
    /\ neg_in = [hostfile |-> None, args |-> None, visible |-> None]
    /\ neg_ret = NegUnset

NoConfig ==
    [kind |-> "none", runner |-> <<>>, task_type |-> "train",
     exp_no_shared_fs |-> BoolV(FALSE), before_start |-> <<>>,
     after_stop |-> <<>>, envs |-> <<>>]
NoArgs == [with_test |-> FALSE, dryrun |-> FALSE]
NoLocals == [nnodes |-> 0, ip |-> <<>>, port |-> 0]
NoCur == [host |-> <<>>, node_rank |-> 0, script |-> <<>>, after |-> "none",
          op |-> "none"]

NoPrev == [done |-> FALSE, args |-> NoArgs, writes |-> <<>>, calls |-> <<>>]

NoGen == [host |-> <<>>, node_rank |-> 0, cmd |-> <<>>, background |-> FALSE,
          with_test |-> FALSE]

RunStart ==
    /\ pc = "new" /\ args = NoArgs /\ locals = NoLocals /\ rank = 0
    /\ cur = NoCur /\ calls = <<>> /\ files = <<>> /\ clock = 0
    /\ port_allocs = 0 /\ error = "none"
    /\ writes = <<>> /\ prev = NoPrev
    /\ gen_in = NoGen

RunIdle == config = NoConfig /\ RunStart

InitParse ==
    /\ NegIdle /\ RunIdle
    /\ hf_entries \in SeqsUpTo(ParseEntries, MaxLines)
    /\ \E p \in {"file", "absent", "notfile"} :
          hostfile = [path |-> p,
                      lines |-> IF p = "file" THEN RenderLines(hf_entries) ELSE <<>>]
    /\ parsed = Unset

ParseHostfile ==
    /\ parsed.status = "unset"
    /\ parsed' = parse_hostfile(hostfile)
    /\ UNCHANGED <<hostfile, hf_entries, neg_vars, gen_in, run_vars>>

NextParse == ParseHostfile

SpecParse == InitParse /\ [][NextParse]_vars

---------------------------------------------------------------------------
(* What was written into the hostfile, read off the entries. *)

HostEntriesOf(es) == SelectSeq(es, LAMBDA e : e.k = "host")

\* every line is a comment, a blank line or <host> slots=<positive integer>
\* [type=<token>], no host is written twice and some host is written
WellFormed(es) ==
    LET hs == HostEntriesOf(es)
    IN  /\ \A i \in 1..Len(es) : es[i].k \in {"host", "comment", "blank"}
        /\ \A i \in 1..Len(hs) : hs[i].slots > 0
        /\ \A i, j \in 1..Len(hs) : hs[i].host = hs[j].host => i = j
        /\ Len(hs) > 0

HostWrittenTwice(es) ==
    LET hs == HostEntriesOf(es)
    IN  \E i, j \in 1..Len(hs) : i # j /\ hs[i].host = hs[j].host

OnlyCommentsAndBlanks(es) ==
    \A i \in 1..Len(es) : es[i].k \in {"comment", "blank"}

ParsedFile == parsed.status # "unset" /\ hostfile.path = "file"

\* C4: for a well-formed hostfile, comments and blank lines interleaved,
\* parse_hostfile returns a table that lists the hosts in the order of their
\* lines and gives each host the slot count written on its line.
C4_OrderAndSlotsPreserved ==
    (ParsedFile /\ WellFormed(hf_entries)) =>
        LET hs == HostEntriesOf(hf_entries)
        IN  /\ parsed.status = "table"
            /\ Keys(parsed.resources) = [i \in 1..Len(hs) |-> hs[i].host]
            /\ \A i \in 1..Len(hs) : parsed.resources[i].slots = hs[i].slots

\* a well-formed file of two hosts with a comment between them and a
\* two-digit slot count has been parsed
C4_Witness ==
    /\ ParsedFile /\ WellFormed(hf_entries)
    /\ Len(hf_entries) = 3
    /\ hf_entries[1].k = "host" /\ hf_entries[1].slots = 12
    /\ hf_entries[2].k = "comment"
    /\ hf_entries[3].k = "host"
    /\ parsed.status = "table"

\* C5: a hostfile in which a host is written on two lines, or which holds
\* only comments and blank lines, makes parse_hostfile raise and return no
\* table, whatever precedes or follows; a returned table has no duplicate
\* host and is not empty.
C5_AllOrNothing ==
    /\ (ParsedFile /\ (HostWrittenTwice(hf_entries) \/ OnlyCommentsAndBlanks(hf_entries)))
          => (parsed.status = "raised" /\ parsed.resources = <<>>)
    /\ parsed.status = "table" =>
          /\ Len(parsed.resources) > 0
          /\ \A i, j \in 1..Len(parsed.resources) :
                parsed.resources[i].host = parsed.resources[j].host => i = j
    /\ parsed.status = "raised" => parsed.resources = <<>>

\* a host written on the first and the last line, a valid other host between
\* them, was rejected as a duplicate
C5_Witness ==
    /\ ParsedFile
    /\ Len(hf_entries) = 3
    /\ hf_entries[1].k = "host" /\ hf_entries[1].host = HostA
    /\ hf_entries[2].k = "host" /\ hf_entries[2].host = HostB
    /\ hf_entries[2].slots > 0
    /\ hf_entries[3].k = "host" /\ hf_entries[3].host = HostA
    /\ parsed.status = "raised" /\ parsed.error = "DuplicateHost"

\* C6: a line that is neither blank nor a comment is accepted only in the
\* form <host> slots=<positive integer> [type=<token>]: a hostfile holding any
\* other such line (slots= missing, slots=0, text after the recognised
\* fields) is rejected with the invalid-entry error unless an earlier line
\* already failed, and every entry of a returned table has slots > 0.
C6_OnlyPositiveSlotsForm ==
    /\ (ParsedFile /\ \E i \in 1..Len(hf_entries) :
            \/ hf_entries[i].k = "raw"
            \/ hf_entries[i].k = "host" /\ hf_entries[i].slots = 0)
          => parsed.status = "raised"
    /\ parsed.status = "table" =>
          \A i \in 1..Len(parsed.resources) : parsed.resources[i].slots > 0

---------------------------------------------------------------------------
(* The negotiation specification: _get_nnodes and _get_nproc_per_node are  *)
(* called on arguments drawn from bounded sets.  An override is given as   *)
(* an int, as a decimal string, or (for nnodes) as a range "min:max".      *)

Counts == 0..MaxCount \cup {12}

Override(form, lo, hi) == [form |-> form, lo |-> lo, hi |-> hi]

\* the Python value of an override as the configuration holds it
OverrideValue(o) ==
    CASE o.form = "int" -> IntV(o.lo)
      [] o.form = "str" -> StrV(str(o.lo))
      [] o.form = "range" -> StrV(str(o.lo) \o <<":">> \o str(o.hi))

Overrides ==
    {Override(f, lo, lo) : f \in {"int", "str"}, lo \in Counts}
    \cup UNION {{Override("range", lo, hi) : hi \in {lo, MaxCount + 1}} : lo \in Counts}

OptOf(S) == {None} \cup {Some(x) : x \in S}

ParseIdle ==
    /\ hostfile = [path |-> "absent", lines |-> <<>>]
    /\ hf_entries = <<>>
    /\ parsed = Unset

InitNeg ==
    /\ ParseIdle /\ RunIdle
    /\ neg_in \in [hostfile : OptOf(1..MaxCount),
                   args : OptOf(Overrides),
                   visible : OptOf(1..MaxCount)]
    /\ neg_ret = NegUnset

ArgsValue(o) == IF IsNone(o) THEN None ELSE Some(OverrideValue(Val(o)))

Call_get_nnodes ==
    /\ neg_ret.fn = "none"
    /\ neg_ret' = [fn |-> "_get_nnodes"]
                  @@ _get_nnodes(neg_in.hostfile, ArgsValue(neg_in.args))
    /\ UNCHANGED <<neg_in, parse_vars, run_vars, gen_in>>

Call_get_nproc_per_node ==
    /\ neg_ret.fn = "none"
    /\ (IF IsNone(neg_in.args) THEN TRUE ELSE Val(neg_in.args).form # "range")
    /\ neg_ret' = [fn |-> "_get_nproc_per_node"]
                  @@ _get_nproc_per_node(neg_in.hostfile, ArgsValue(neg_in.args),
                                         neg_in.visible)
    /\ UNCHANGED <<neg_in, parse_vars, run_vars, gen_in>>

NextNeg == Call_get_nnodes \/ Call_get_nproc_per_node

SpecNeg == InitNeg /\ [][NextNeg]_vars

---------------------------------------------------------------------------
(* The runners.  A runner is constructed over a configuration (__init__),  *)
(* then run(with_test, dryrun) is called.  Each run_ssh_command,           *)
(* run_scp_command and run_local_command call is one step; a call that     *)
(* spawns a process (subprocess.run(..., check=True)) either returns or    *)
(* raises CalledProcessError, which ends run().                            *)

Ports == {29500, 29501}
UserScript == <<"t", ".", "p", "y">>
\* get_megatron_args(config): the task's arguments, fixed here
UserArgs == <<Flag("seed"), Text(<<"1">>)>>

\* get_host_name_or_ip(): whatever the machine is called
HostNames == {HostA, Localhost}

\* num_visible_devices of run(): len(CUDA_VISIBLE_DEVICES.split(",")) when the
\* variable is set and not empty
num_visible_devices(envs) ==
    LET v == dopt(envs, "CUDA_VISIBLE_DEVICES")
    IN  IF ~IsNone(v) /\ IsTrue(Val(v))
        THEN Some(Len(split(Val(v).s, ","))) ELSE None

\* export_cmd of _run_each
export_cmd(envs) == [i \in 1..Len(envs) |-> Env(envs[i].k, fmt(envs[i].v))]

\* cmd of _run_each (the tokens shlex.join joins)
run_each_cmd(host, master_addr, master_port, nnodes, node_rank, nproc_per_node, now) ==
    export_cmd(config.envs)
    \o _get_runner_cmd(host, master_addr, master_port, nnodes, node_rank,
                       nproc_per_node, config, now)
    \o <<Text(UserScript)>> \o UserArgs

\* A call of run_local_command / run_ssh_command / run_scp_command: what it
\* was asked to do, whether it spawned a process (subprocess.run) and
\* whether it returned (ok) or raised.  With dryrun it logs and returns.
run_local_command(what, file, dryrun) ==
    [fn |-> "run_local_command", host |-> Localhost, what |-> what, file |-> file,
     port |-> None, spawn |-> ~dryrun]

run_ssh_command(host, what, file, port, dryrun) ==
    [fn |-> "run_ssh_command", host |-> host, what |-> what, file |-> file,
     port |-> port, spawn |-> ~dryrun]

\* mutant: the copy is made whatever dryrun says
run_scp_command_always(host, what, file, port, dryrun) ==
    [fn |-> "run_scp_command", host |-> host, what |-> what, file |-> file,
     port |-> port, spawn |-> TRUE]

run_scp_command(host, what, file, port, dryrun) ==
    [fn |-> "run_scp_command", host |-> host, what |-> what, file |-> file,
     port |-> port, spawn |-> ~dryrun]

\* self.config.experiment.runner.get("ssh_port", 22)
ssh_port == Some(dget(config.runner, "ssh_port", IntV(22)))

\* mutant: the loop breaks one host late
loop_continues_late(node_rank, nnodes, resources) ==
    node_rank < Len(resources) /\ ~(node_rank > nnodes)

\* for node_rank, ... in enumerate(self.resources.items()):
\*     if node_rank >= nnodes: break
loop_continues(node_rank, nnodes, resources) ==
    node_rank < Len(resources) /\ ~(node_rank >= nnodes)

\* mutant: every task type is let through
supported_any(task_type) == TRUE

\* _prepare: the task type run() goes on with
supported(task_type) == task_type = "train"

\* __init__: _update_config, and for SSHRunner self.resources = parse_hostfile(...).
\* CloudRunner defines no stop(), which MultiNodeRunner declares abstract, so
\* an object running CloudRunner.__init__ and CloudRunner.run is an instance
\* of a subclass that supplies stop(); "CloudRunner" names such an object.
Construct ==
    /\ pc = "new"
    /\ parsed' = IF config.kind = "SSHRunner" THEN parse_hostfile(hostfile) ELSE parsed
    /\ pc' = IF parsed'.status = "raised" THEN "raised" ELSE "idle"
    /\ error' = IF parsed'.status = "raised" THEN parsed'.error ELSE error
    /\ UNCHANGED <<hostfile, hf_entries, neg_vars, gen_in, config, args, locals, rank, cur,
                   calls, files, clock, port_allocs, writes, prev>>

Resources == parsed.resources
HasResources == parsed.status = "table"

\* run() of either runner when _prepare rejects the task type
Run_Unsupported ==
    /\ pc = "idle"
    /\ ~supported(config.task_type)
    /\ \E wt, dr \in BOOLEAN : args' = [with_test |-> wt, dryrun |-> dr]
    /\ pc' = "raised"
    /\ error' = "ValueError"
    /\ UNCHANGED <<parse_vars, neg_vars, gen_in, config, locals, rank, cur, calls, files,
                   clock, port_allocs, writes, prev>>

\* SSHRunner.run() over a hostfile, up to the for loop
SSH_Run_Hostfile ==
    /\ pc = "idle" /\ config.kind = "SSHRunner" /\ supported(config.task_type)
    /\ HasResources
    /\ \E wt, dr \in BOOLEAN : args' = [with_test |-> wt, dryrun |-> dr]
    /\ LET nnodes_from_hostfile == Len(Keys(Resources))
           nnodes_from_args == dopt(config.runner, "nnodes")
           nnodes == _get_nnodes(Some(nnodes_from_hostfile), nnodes_from_args)
           avaliable_ip == Keys(Resources)[1]
       IN  IF nnodes.raised # "none"
           THEN /\ pc' = "raised" /\ error' = nnodes.raised
                /\ UNCHANGED <<locals, port_allocs>>
           ELSE /\ \E avalibale_port \in Ports :
                      locals' = [nnodes |-> nnodes.v.n, ip |-> avaliable_ip,
                                 port |-> avalibale_port]
                /\ port_allocs' = port_allocs + 1
                /\ pc' = "loop"
                /\ error' = error
    /\ rank' = 0
    /\ UNCHANGED <<parse_vars, neg_vars, gen_in, config, cur, calls, files, clock, writes,
                   prev>>

\* _run_each up to the first run_*_command call: the command and the script
RunEachStart(host, master_addr, master_port, nnodes, node_rank, nproc_per_node, background, local_only, after) ==
    \E now \in clock..Min(clock + 1, MaxClock) :
        LET cmd == run_each_cmd(host, master_addr, master_port, nnodes, node_rank,
                                nproc_per_node, now)
        IN  /\ clock' = now
            /\ files' = _generate_run_script(files, config, host, node_rank, cmd,
                                             background, args'.with_test)
            /\ writes' = Append(writes,
                   [path |-> host_run_script_file(node_rank, host),
                    content |-> files'[host_run_script_file(node_rank, host)]])
            /\ cur' = [host |-> host, node_rank |-> node_rank.n,
                       script |-> host_run_script_file(node_rank, host),
                       after |-> after, op |-> "run"]
            /\ pc' = IF local_only \/ host = Localhost THEN "local" ELSE "ssh_mkdir"

\* mutant: every host is given the slots of the first host
SSH_Run_Iter_first_slots ==
    /\ pc = "loop"
    /\ loop_continues(rank, locals.nnodes, Resources)
    /\ args' = args
    /\ LET host == Resources[rank + 1].host
           nproc_from_hostfile == Resources[1].slots
           nproc_from_args == dopt(config.runner, "nproc_per_node")
           nproc_per_node == _get_nproc_per_node(Some(nproc_from_hostfile),
                                 nproc_from_args, num_visible_devices(config.envs))
           master_addr == dget(config.runner, "master_addr", StrV(locals.ip))
           master_port == dget(config.runner, "master_port", IntV(locals.port))
       IN  IF nproc_per_node.raised # "none"
           THEN /\ pc' = "raised" /\ error' = nproc_per_node.raised
                /\ UNCHANGED <<cur, files, clock, writes>>
           ELSE /\ RunEachStart(host, master_addr, master_port, IntV(locals.nnodes),
                                IntV(rank), nproc_per_node.v, TRUE, FALSE, "loop")
                /\ error' = error
    /\ UNCHANGED <<parse_vars, neg_vars, gen_in, config, locals, rank, calls, port_allocs,
                   prev>>

\* one iteration of the for loop of SSHRunner.run(), up to the first call
SSH_Run_Iter ==
    /\ pc = "loop"
    /\ loop_continues(rank, locals.nnodes, Resources)
    /\ args' = args
    /\ LET host == Resources[rank + 1].host
           nproc_from_hostfile == Resources[rank + 1].slots
           nproc_from_args == dopt(config.runner, "nproc_per_node")
           nproc_per_node == _get_nproc_per_node(Some(nproc_from_hostfile),
                                 nproc_from_args, num_visible_devices(config.envs))
           master_addr == dget(config.runner, "master_addr", StrV(locals.ip))
           master_port == dget(config.runner, "master_port", IntV(locals.port))
       IN  IF nproc_per_node.raised # "none"
           THEN /\ pc' = "raised" /\ error' = nproc_per_node.raised
                /\ UNCHANGED <<cur, files, clock, writes>>
           ELSE /\ RunEachStart(host, master_addr, master_port, IntV(locals.nnodes),
                                IntV(rank), nproc_per_node.v, TRUE, FALSE, "loop")
                /\ error' = error
    /\ UNCHANGED <<parse_vars, neg_vars, gen_in, config, locals, rank, calls, port_allocs,
                   prev>>

\* the for loop of SSHRunner.run() ends: break, or the table is exhausted
SSH_Run_End ==
    /\ pc = "loop"
    /\ ~loop_continues(rank, locals.nnodes, Resources)
    /\ pc' = "done"
    /\ UNCHANGED <<parse_vars, neg_vars, gen_in, config, args, locals, rank, cur, calls,
                   files, clock, port_allocs, error, writes, prev>>

\* SSHRunner.run() without a hostfile, up to the first call
SSH_Run_NoHostfile ==
    /\ pc = "idle" /\ config.kind = "SSHRunner" /\ supported(config.task_type)
    /\ ~HasResources
    /\ \E wt, dr \in BOOLEAN : args' = [with_test |-> wt, dryrun |-> dr]
    /\ \E free_port \in Ports :
        LET nproc_from_args == dopt(config.runner, "nproc_per_node")
            nproc_per_node == _get_nproc_per_node(None, nproc_from_args,
                                  num_visible_devices(config.envs))
            avaliable_addr == dget(config.runner, "master_addr", StrV(Localhost))
            avaliable_port == dget(config.runner, "master_port", IntV(free_port))
        IN  IF nproc_per_node.raised # "none"
            THEN /\ pc' = "raised" /\ error' = nproc_per_node.raised
                 /\ UNCHANGED <<cur, files, clock, locals, port_allocs, writes>>
            ELSE /\ RunEachStart(Localhost, avaliable_addr, avaliable_port, IntV(1),
                                 IntV(0), nproc_per_node.v, TRUE, FALSE, "done")
                 /\ locals' = [nnodes |-> 1, ip |-> Localhost, port |-> free_port]
                 /\ port_allocs' = port_allocs + 1
                 /\ error' = error
    /\ UNCHANGED <<parse_vars, neg_vars, gen_in, config, rank, calls, prev>>

\* CloudRunner.run(dryrun=True): logs that dry run is not supported, returns
Cloud_Run_Dry ==
    /\ pc = "idle" /\ config.kind = "CloudRunner" /\ supported(config.task_type)
    /\ \E wt \in BOOLEAN : args' = [with_test |-> wt, dryrun |-> TRUE]
    /\ pc' = "done"
    /\ UNCHANGED <<parse_vars, neg_vars, gen_in, config, locals, rank, cur, calls, files,
                   clock, port_allocs, error, writes, prev>>

\* CloudRunner.run(dryrun=False), up to the run_local_command call.
\* runner_config.node_rank, .master_addr and .master_port are read as
\* attributes; every CloudRunner configuration here sets them.
Cloud_Run ==
    /\ pc = "idle" /\ config.kind = "CloudRunner" /\ supported(config.task_type)
    /\ \E wt \in BOOLEAN : args' = [with_test |-> wt, dryrun |-> FALSE]
    /\ \E host \in HostNames :
        LET nnodes == _get_nnodes(None, dopt(config.runner, "nnodes"))
            node_rank == dget(config.runner, "node_rank", IntV(0))
            nproc_per_node == _get_nproc_per_node(None,
                                  dopt(config.runner, "nproc_per_node"),
                                  num_visible_devices(config.envs))
            master_addr == dget(config.runner, "master_addr", StrV(Localhost))
            master_port == dget(config.runner, "master_port", IntV(0))
        IN  IF nnodes.raised # "none" \/ nproc_per_node.raised # "none"
            THEN /\ pc' = "raised"
                 /\ error' = IF nnodes.raised # "none" THEN nnodes.raised
                             ELSE nproc_per_node.raised
                 /\ UNCHANGED <<cur, files, clock, writes>>
            ELSE /\ RunEachStart(host, master_addr, master_port, nnodes.v, node_rank,
                                 nproc_per_node.v, FALSE, TRUE, "done")
                 /\ error' = error
    /\ UNCHANGED <<parse_vars, neg_vars, gen_in, config, locals, rank, calls, port_allocs,
                   prev>>

\* the exit codes a spawned shell may end with
ExitCodes == {0, 3}

\* subprocess.run(cmd, shell=True, check=check) for a child that exits with
\* rc: with check a non-zero rc raises CalledProcessError, otherwise the
\* result carries the return code
subprocess_run(rc, check) ==
    IF check /\ rc # 0
    THEN [raised |-> "CalledProcessError", returncode |-> rc]
    ELSE [raised |-> "none", returncode |-> rc]

Returns == [raised |-> "none", exit |-> None, echoed |-> FALSE]

\* run_local_command after the dryrun test: subprocess.run(..., check=True,
\* capture_output=True), then the test of result.returncode
local_outcome(rc) ==
    LET result == subprocess_run(rc, TRUE)
    IN  IF result.raised # "none"
        THEN [raised |-> result.raised, exit |-> None, echoed |-> FALSE]
        ELSE IF result.returncode # 0
        THEN [raised |-> "SystemExit", exit |-> Some(result.returncode),
              echoed |-> TRUE]
        ELSE Returns

\* run_ssh_command / run_scp_command after the dryrun test
remote_outcome(rc) ==
    LET result == subprocess_run(rc, TRUE)
    IN  IF result.raised # "none"
        THEN [raised |-> result.raised, exit |-> None, echoed |-> FALSE]
        ELSE Returns

\* how a call ends when the process it spawns (if any) exits with rc
command_outcome(call, rc) ==
    IF ~call.spawn THEN Returns
    ELSE IF call.fn = "run_local_command" THEN local_outcome(rc)
    ELSE remote_outcome(rc)

\* mutant: a failed call is passed over and the next step is taken
Step_goes_on(at, call, next) ==
    /\ pc = at
    /\ \E rc \in (IF call.spawn THEN ExitCodes ELSE {0}) :
        LET out == command_outcome(call, rc)
            ok == out.raised = "none"
        IN  /\ calls' = Append(calls,
                   call @@ [node_rank |-> cur.node_rank, ok |-> ok, rc |-> rc,
                            raised |-> out.raised, exit |-> out.exit,
                            echoed |-> out.echoed])
            /\ pc' = next
            /\ error' = error
            /\ rank' = IF next \in {"loop", "stop_loop"} THEN rank + 1 ELSE rank
    /\ UNCHANGED <<parse_vars, neg_vars, gen_in, config, args, locals, cur, files, clock,
                   port_allocs, writes, prev>>

\* a run_*_command call made at pc = at: it returns (and run() goes on at
\* next) or, having spawned a process that failed, raises
Step(at, call, next) ==
    /\ pc = at
    /\ \E rc \in (IF call.spawn THEN ExitCodes ELSE {0}) :
        LET out == command_outcome(call, rc)
            ok == out.raised = "none"
        IN  /\ calls' = Append(calls,
                   call @@ [node_rank |-> cur.node_rank, ok |-> ok, rc |-> rc,
                            raised |-> out.raised, exit |-> out.exit,
                            echoed |-> out.echoed])
            /\ pc' = IF ok THEN next ELSE "raised"
            /\ error' = IF ok THEN error ELSE out.raised
            /\ rank' = IF ok /\ next \in {"loop", "stop_loop"} THEN rank + 1 ELSE rank
    /\ UNCHANGED <<parse_vars, neg_vars, gen_in, config, args, locals, cur, files, clock,
                   port_allocs, writes, prev>>

\* mutant: the copy is made when the file system is shared
Ssh_Mkdir_flipped ==
    Step("ssh_mkdir",
         run_ssh_command(cur.host, "mkdir", ScriptsDir, ssh_port, args.dryrun),
         IF IsTrue(dget(config.runner, "no_shared_fs", BoolV(FALSE)))
         THEN "ssh_bash" ELSE "scp")

\* Step 1 of _run_each: mkdir -p scripts_dir on the remote host
Ssh_Mkdir ==
    Step("ssh_mkdir",
         run_ssh_command(cur.host, "mkdir", ScriptsDir, ssh_port, args.dryrun),
         IF IsTrue(dget(config.runner, "no_shared_fs", BoolV(FALSE)))
         THEN "scp" ELSE "ssh_bash")

\* Step 2 of _run_each: copy the run script to the remote host
Scp_Script ==
    Step("scp",
         run_scp_command(cur.host, "copy", cur.script, ssh_port, args.dryrun),
         "ssh_bash")

\* Step 3 of _run_each: run the script on the remote host
Ssh_Bash ==
    Step("ssh_bash",
         run_ssh_command(cur.host, "bash", cur.script, ssh_port, args.dryrun),
         cur.after)

\* run_local_command(f"bash {host_run_script_file}", dryrun)
Local_Bash ==
    Step("local", run_local_command("bash", cur.script, args.dryrun), cur.after)

\* run() has returned and is called again on the same runner object
Run_Again ==
    /\ pc = "done"
    /\ ~prev.done
    /\ prev' = [done |-> TRUE, args |-> args, writes |-> writes, calls |-> calls]
    /\ pc' = "idle"
    /\ args' = NoArgs /\ locals' = NoLocals /\ rank' = 0 /\ cur' = NoCur
    /\ calls' = <<>> /\ writes' = <<>>
    /\ UNCHANGED <<parse_vars, neg_vars, gen_in, config, files, clock, port_allocs, error>>

Next ==
    \/ Construct
    \/ Run_Unsupported
    \/ SSH_Run_Hostfile
    \/ SSH_Run_Iter
    \/ SSH_Run_End
    \/ SSH_Run_NoHostfile
    \/ Cloud_Run_Dry
    \/ Cloud_Run
    \/ Ssh_Mkdir
    \/ Scp_Script
    \/ Ssh_Bash
    \/ Local_Bash

---------------------------------------------------------------------------
(* The configurations runners are constructed over. *)

Pair(k, o) == IF IsNone(o) THEN <<>> ELSE <<[k |-> k, v |-> Val(o)]>>

HostfilePath == <<"/", "h">>

\* experiment.runner of the configuration
RunnerOptions(path, nnodes, nproc, ep, per_node, no_shared_fs, node_rank) ==
    Pair("hostfile", IF path = "absent" THEN None ELSE Some(StrV(HostfilePath)))
    \o Pair("nnodes", nnodes)
    \o Pair("nproc_per_node", nproc)
    \o Pair("master_addr", ep.addr)
    \o Pair("master_port", ep.port)
    \o Pair("rdzv_endpoint", ep.endpoint)
    \o Pair("per_node_task", per_node)
    \o Pair("no_shared_fs", no_shared_fs)
    \o Pair("node_rank", node_rank)

NoEndpoint == [addr |-> None, port |-> None, endpoint |-> None]
MasterGiven == [addr |-> Some(StrV(<<"m">>)), port |-> Some(IntV(29400)), endpoint |-> None]
EndpointGiven == [addr |-> None, port |-> None, endpoint |-> Some(StrV(<<"e", ":", "1">>))]

NnodesOptions ==
    { None,
      Some(OverrideValue(Override("int", 2, 2))),
      Some(OverrideValue(Override("range", 1, MaxHosts + 1))),
      Some(OverrideValue(Override("str", MaxHosts + 1, MaxHosts + 1))) }

Flags == {None, Some(BoolV(TRUE))}

MakeConfig(kind, opts, task_type) ==
    [kind |-> kind, runner |-> opts, task_type |-> task_type,
     exp_no_shared_fs |-> BoolV(FALSE), before_start |-> <<>>,
     after_stop |-> <<>>, envs |-> <<>>]

SSHConfigs(path) ==
    {MakeConfig("SSHRunner",
                RunnerOptions(path, nn, None, ep, pn, ns, None), "train") :
        nn \in NnodesOptions, ep \in {NoEndpoint, MasterGiven, EndpointGiven},
        pn \in Flags, ns \in Flags}
    \cup {MakeConfig("SSHRunner",
                     RunnerOptions(path, None, None, NoEndpoint, None, None, None),
                     "inference")}

CloudConfigs ==
    {MakeConfig("CloudRunner",
                RunnerOptions("absent", nn, None, MasterGiven, None, None,
                              Some(IntV(nr))), tt) :
        nn \in NnodesOptions, nr \in {0, 1}, tt \in {"train", "inference"}}

RunEntries ==
    { HostEntry(HostA, 2, None, Sp),
      HostEntry(HostB, 4, Some(<<"H">>), Sp),
      HostEntry(Localhost, 2, None, Sp) }

Init ==
    /\ NegIdle /\ RunStart
    /\ parsed = Unset
    /\ \/ /\ hf_entries \in SeqsUpTo(RunEntries, MaxHosts)
          /\ hostfile = [path |-> "file", lines |-> RenderLines(hf_entries)]
          /\ config \in SSHConfigs("file")
       \/ /\ hf_entries = <<>>
          /\ \E p \in {"absent", "notfile"} :
                /\ hostfile = [path |-> p, lines |-> <<>>]
                /\ config \in SSHConfigs(p)
       \/ /\ hf_entries = <<>>
          /\ hostfile = [path |-> "absent", lines |-> <<>>]
          /\ config \in CloudConfigs

Spec == Init /\ [][Next]_vars

---------------------------------------------------------------------------
(* The same runner run twice (a dry run and a real run in either order),   *)
(* over fewer configurations.                                              *)

TwiceSSHConfigs(path) ==
    {MakeConfig("SSHRunner",
                RunnerOptions(path, Some(IntV(2)), None, NoEndpoint, None, ns, None),
                tt) : ns \in Flags, tt \in {"train", "inference"}}

TwiceCloudConfigs ==
    {MakeConfig("CloudRunner",
                RunnerOptions("absent", Some(IntV(2)), None, MasterGiven, None, None,
                              Some(IntV(nr))), "train") : nr \in {0, 1}}

InitTwice ==
    /\ NegIdle /\ RunStart
    /\ parsed = Unset
    /\ \/ /\ hf_entries \in SeqsUpTo(RunEntries, MaxHosts)
          /\ hostfile = [path |-> "file", lines |-> RenderLines(hf_entries)]
          /\ config \in TwiceSSHConfigs("file")
       \/ /\ hf_entries = <<>>
          /\ hostfile = [path |-> "absent", lines |-> <<>>]
          /\ config \in TwiceSSHConfigs("absent") \cup TwiceCloudConfigs

NextTwice == Next \/ Run_Again

SpecTwice == InitTwice /\ [][NextTwice]_vars

---------------------------------------------------------------------------
(* SSHRunner.stop(), called on a runner that has not run or whose run()    *)
(* has returned.  _stop_each passes no dryrun to the run_*_command calls,  *)
(* so they are made with dryrun = False.                                   *)

\* _stop_each up to the first run_*_command call: the stop script
StopEachStart(host, node_rank, after) ==
    /\ files' = _generate_stop_script(files, config, host, IntV(node_rank))
    /\ writes' = Append(IF pc = "stop_loop" THEN writes ELSE <<>>,
           [path |-> host_stop_script_file(IntV(node_rank), host),
            content |-> files'[host_stop_script_file(IntV(node_rank), host)]])
    /\ cur' = [host |-> host, node_rank |-> node_rank,
               script |-> host_stop_script_file(IntV(node_rank), host),
               after |-> after, op |-> "stop"]
    /\ pc' = IF host = Localhost THEN "local" ELSE "ssh_mkdir"

\* stop() begins: what run() left is kept aside
StopBegins ==
    /\ pc \in {"idle", "done"}
    /\ config.kind = "SSHRunner"
    /\ prev' = [done |-> pc = "done", args |-> args, writes |-> writes,
                calls |-> calls]
    /\ args' = NoArgs
    /\ calls' = <<>>
    /\ rank' = 0

\* stop() without a hostfile: self._stop_each("localhost", 0)
SSH_Stop_NoHostfile ==
    /\ StopBegins
    /\ ~HasResources
    /\ StopEachStart(Localhost, 0, "stopped")
    /\ UNCHANGED <<parse_vars, neg_vars, gen_in, config, locals, clock, port_allocs, error>>

\* mutant: stop() goes over the whole table, the nnodes option unread
SSH_Stop_Hostfile_all ==
    /\ StopBegins
    /\ HasResources
    /\ pc' = "stop_loop" /\ error' = error
    /\ locals' = [locals EXCEPT !.nnodes = Len(Resources)]
    /\ writes' = <<>>
    /\ UNCHANGED <<parse_vars, neg_vars, gen_in, config, cur, files, clock, port_allocs>>

\* stop() over a hostfile, up to the for loop
SSH_Stop_Hostfile ==
    /\ StopBegins
    /\ HasResources
    /\ LET nnodes == _get_nnodes(Some(Len(Resources)), dopt(config.runner, "nnodes"))
       IN  IF nnodes.raised # "none"
           THEN /\ pc' = "raised" /\ error' = nnodes.raised
                /\ locals' = locals
           ELSE /\ pc' = "stop_loop" /\ error' = error
                /\ locals' = [locals EXCEPT !.nnodes = nnodes.v.n]
    /\ writes' = <<>>
    /\ UNCHANGED <<parse_vars, neg_vars, gen_in, config, cur, files, clock, port_allocs>>

\* one iteration of the for loop of stop(), up to the first call
SSH_Stop_Iter ==
    /\ pc = "stop_loop"
    /\ loop_continues(rank, locals.nnodes, Resources)
    /\ StopEachStart(Resources[rank + 1].host, rank, "stop_loop")
    /\ UNCHANGED <<parse_vars, neg_vars, gen_in, config, args, locals, rank, calls, clock,
                   port_allocs, error, prev>>

\* the for loop of stop() ends
SSH_Stop_End ==
    /\ pc = "stop_loop"
    /\ ~loop_continues(rank, locals.nnodes, Resources)
    /\ pc' = "stopped"
    /\ UNCHANGED <<parse_vars, neg_vars, gen_in, config, args, locals, rank, cur, calls,
                   files, clock, port_allocs, error, writes, prev>>

Mpirun == <<"m", "p", "i", "r", "u", "n">>
Hook == <<"h">>

\* experiment.no_shared_fs, experiment.runner.backend and experiment.cmds of
\* a configuration
WithOptions(cfg, exp_ns, backend, before_start, after_stop) ==
    [cfg EXCEPT !.runner = @ \o Pair("backend", backend),
                !.exp_no_shared_fs = exp_ns,
                !.before_start = before_start,
                !.after_stop = after_stop]

StopSSHConfigs(path) ==
    {WithOptions(MakeConfig("SSHRunner",
                     RunnerOptions(path, nn, None, NoEndpoint, None, ns, None),
                     "train"),
                 BoolV(ens), b, <<>>, IF IsNone(nn) THEN <<>> ELSE Hook) :
        nn \in {None, Some(IntV(2))}, ns \in Flags, ens \in BOOLEAN,
        b \in {None, Some(StrV(Mpirun))}}
    \cup {MakeConfig("SSHRunner",
                     RunnerOptions(path, None, None, NoEndpoint, None, None, None),
                     "inference")}

InitStop ==
    /\ NegIdle /\ RunStart
    /\ parsed = Unset
    /\ \/ /\ hf_entries \in SeqsUpTo(RunEntries, MaxHosts)
          /\ hostfile = [path |-> "file", lines |-> RenderLines(hf_entries)]
          /\ config \in StopSSHConfigs("file")
       \/ /\ hf_entries = <<>>
          /\ hostfile = [path |-> "absent", lines |-> <<>>]
          /\ config \in StopSSHConfigs("absent") \cup TwiceCloudConfigs

NextStop ==
    \/ Next
    \/ SSH_Stop_NoHostfile
    \/ SSH_Stop_Hostfile
    \/ SSH_Stop_Iter
    \/ SSH_Stop_End

SpecStop == InitStop /\ [][NextStop]_vars

---------------------------------------------------------------------------
(* The script generators called directly, several times over, on one set   *)
(* of arguments and a file system that may already hold an older script.   *)

\* how many generator calls are made
MaxCalls == 2

GenConfigs ==
    {WithOptions(MakeConfig("SSHRunner",
                     RunnerOptions("absent", None, None, NoEndpoint, None, ns, None),
                     "train"),
                 BoolV(FALSE), None, hook, hook) :
        ns \in Flags, hook \in {<<>>, Hook}}

GenCmds == { <<Text(Torchrun), Text(UserScript)>>,
             <<Text(Mpirun), Flag("nnodes"), Text(<<"2">>), Text(UserScript)>> }

\* a script left by an earlier job
OldRunScript ==
    [before_start |-> <<>>, cmd |-> <<Text(<<"o", "l", "d">>)>>, clause |-> "blocking",
     output_file |-> <<"o">>, pid_file |-> <<>>, mode |-> "644"]

InitGen ==
    /\ ParseIdle /\ NegIdle
    /\ config \in GenConfigs
    /\ pc = "gen" /\ args = NoArgs /\ locals = NoLocals /\ rank = 0
    /\ cur = NoCur /\ calls = <<>> /\ clock = 0
    /\ port_allocs = 0 /\ error = "none"
    /\ writes = <<>> /\ prev = NoPrev
    /\ gen_in \in [host : {HostA, Localhost}, node_rank : {0, 1}, cmd : GenCmds,
                    background : BOOLEAN, with_test : BOOLEAN]
    /\ files \in {<<>>,
                   [q \in {host_run_script_file(IntV(gen_in.node_rank), gen_in.host)}
                       |-> OldRunScript]}

\* host_run_script_file = _generate_run_script(config, host, node_rank, cmd,
\*                                             background, with_test)
Gen_Run ==
    /\ pc = "gen" /\ Len(writes) < MaxCalls
    /\ files' = _generate_run_script(files, config, gen_in.host,
                     IntV(gen_in.node_rank), gen_in.cmd, gen_in.background,
                     gen_in.with_test)
    /\ writes' = Append(writes,
           [fn |-> "_generate_run_script",
            path |-> host_run_script_file(IntV(gen_in.node_rank), gen_in.host),
            before |-> files, after |-> files'])
    /\ UNCHANGED <<parse_vars, neg_vars, gen_in, config, pc, args, locals, rank, cur,
                   calls, clock, port_allocs, error, prev>>

\* host_stop_script_file = _generate_stop_script(config, host, node_rank)
Gen_Stop ==
    /\ pc = "gen" /\ Len(writes) < MaxCalls
    /\ files' = _generate_stop_script(files, config, gen_in.host,
                     IntV(gen_in.node_rank))
    /\ writes' = Append(writes,
           [fn |-> "_generate_stop_script",
            path |-> host_stop_script_file(IntV(gen_in.node_rank), gen_in.host),
            before |-> files, after |-> files'])
    /\ UNCHANGED <<parse_vars, neg_vars, gen_in, config, pc, args, locals, rank, cur,
                   calls, clock, port_allocs, error, prev>>

NextGen == Gen_Run \/ Gen_Stop

SpecGen == InitGen /\ [][NextGen]_vars

\* C2: _get_nnodes returns min(hostfile count, override min) when both are
\* given, the hostfile count when only it is given, the override min when
\* only the override is given (the min part of a range "min:max", the max
\* ignored), and rejects the call when neither is given.
C2_NnodesRule ==
    neg_ret.fn = "_get_nnodes" =>
        LET h == neg_in.hostfile
            o == neg_in.args
        IN  CASE ~IsNone(h) /\ ~IsNone(o) ->
                    neg_ret.raised = "none"
                    /\ neg_ret.v = IntV(IF Val(h) <= Val(o).lo THEN Val(h) ELSE Val(o).lo)
              [] ~IsNone(h) /\ IsNone(o) ->
                    neg_ret.raised = "none" /\ neg_ret.v = IntV(Val(h))
              [] IsNone(h) /\ ~IsNone(o) ->
                    neg_ret.raised = "none" /\ neg_ret.v = IntV(Val(o).lo)
              [] IsNone(h) /\ IsNone(o) ->
                    neg_ret.raised = "AssertionError"

\* a range whose min is below and whose max is above the hostfile count was
\* resolved to its min
C2_Witness ==
    /\ neg_ret.fn = "_get_nnodes"
    /\ neg_in.hostfile = Some(3)
    /\ neg_in.args = Some(Override("range", 2, MaxCount + 1))
    /\ neg_ret.v = IntV(2)

\* C3: _get_nproc_per_node returns the integer that is the minimum of the
\* values present among hostfile slots and override, capped by the visible
\* device count when that is known; with neither it returns the visible
\* device count if known and 1 otherwise.
C3_NprocRule ==
    neg_ret.fn = "_get_nproc_per_node" =>
        LET h == neg_in.hostfile
            o == neg_in.args
            vis == neg_in.visible
            present == {Val(x) : x \in {h} \ {None}}
                       \cup {Val(x).lo : x \in {o} \ {None}}
            cap == {Val(x) : x \in {vis} \ {None}}
            least(S) == CHOOSE m \in S : \A x \in S : m <= x
        IN  /\ neg_ret.raised = "none"
            /\ neg_ret.v = IntV(IF present # {} THEN least(present \cup cap)
                                ELSE IF cap # {} THEN least(cap) ELSE 1)

---------------------------------------------------------------------------
(* Properties of run(). *)

IsSSH == config.kind = "SSHRunner"

\* the calls that hand a host its start script (the script is run there)
Launches == SelectSeq(calls, LAMBDA c : c.what = "bash")

\* the hosts written into the hostfile, in line order
WrittenHosts == HostEntriesOf(hf_entries)

\* C1: over a hostfile of N hosts with negotiated nnodes = k, 1 <= k <= N,
\* SSHRunner.run() hands start scripts to hosts in hostfile order, rank by
\* rank and once each, every call for host i made before any call for host
\* i+1, never to a host of rank >= k, and when every call succeeded (run()
\* returned) to exactly the first k hosts.
C1_DispatchFirstK ==
    (IsSSH /\ HasResources /\ 1 <= locals.nnodes /\ locals.nnodes <= Len(WrittenHosts)) =>
        /\ Len(Launches) <= locals.nnodes
        /\ \A j \in 1..Len(Launches) :
              /\ Launches[j].node_rank = j - 1
              /\ Launches[j].host = WrittenHosts[j].host
        /\ \A a, b \in 1..Len(calls) :
              a < b => calls[a].node_rank <= calls[b].node_rank
        /\ \A a \in 1..(Len(calls) - 1) :
              calls[a].what = "bash" =>
                  calls[a].ok /\ calls[a + 1].node_rank = calls[a].node_rank + 1
        /\ pc = "done" => Len(Launches) = locals.nnodes

\* a real run over three hosts with nnodes = 2 has returned after two launches
C1_Witness ==
    /\ IsSSH /\ pc = "done" /\ ~args.dryrun
    /\ Len(WrittenHosts) = 3 /\ locals.nnodes = 2
    /\ Len(Launches) = 2

\* C7: when the hostfile path is absent or not a regular file,
\* parse_hostfile returns None without raising and SSHRunner.run() makes one
\* call only, a local execution for host "localhost" whose command carries
\* node_rank 0 and nnodes 1, and no remote-shell or copy call, whatever
\* nnodes override is configured.
C7_NoHostfileRunsLocalhostOnce ==
    (IsSSH /\ hostfile.path # "file" /\ pc # "new") =>
        /\ parsed = ReturnedNone
        /\ Len(calls) <= 1
        /\ \A i \in 1..Len(calls) :
              /\ calls[i].fn = "run_local_command"
              /\ calls[i].host = Localhost
              /\ calls[i].node_rank = 0
              /\ FlagValue(files[calls[i].file].cmd, "nnodes") = <<"1">>
              /\ FlagValue(files[calls[i].file].cmd, "node_rank") = <<"0">>
        /\ (pc = "done" \/ error = "CalledProcessError") => Len(calls) = 1

\* a runner whose hostfile path is not a file and whose configuration
\* overrides nnodes has run its one local command
C7_Witness ==
    /\ IsSSH /\ hostfile.path = "notfile"
    /\ dhas(config.runner, "nnodes")
    /\ pc = "done" /\ Len(calls) = 1 /\ calls[1].spawn

NoEndpointOverride ==
    /\ ~dhas(config.runner, "master_addr")
    /\ ~dhas(config.runner, "master_port")
    /\ ~dhas(config.runner, "rdzv_endpoint")

PerNodeTask == IsTrue(dget(config.runner, "per_node_task", BoolV(FALSE)))

\* C8: in one SSHRunner.run() over a hostfile, with no master_addr,
\* master_port or rdzv_endpoint override and per-node-task off, the free port
\* is allocated once, and the launch command of the host at hostfile
\* position i carries rdzv_endpoint <first hostfile host>:<that port> and
\* node_rank i.
C8_OneEndpointRanksByPosition ==
    (IsSSH /\ HasResources /\ NoEndpointOverride /\ ~PerNodeTask) =>
        /\ port_allocs <= 1
        /\ pc \in {"loop", "ssh_mkdir", "scp", "ssh_bash", "local", "done"}
              => port_allocs = 1
        /\ \A i \in 1..Len(writes) :
              /\ FlagValue(writes[i].content.cmd, "rdzv_endpoint") =
                     WrittenHosts[1].host \o <<":">> \o str(locals.port)
              /\ FlagValue(writes[i].content.cmd, "node_rank") = str(i - 1)
        /\ \A j \in 1..Len(Launches) :
              /\ Launches[j].host = WrittenHosts[j].host
              /\ Launches[j].file = writes[j].path
              /\ files[Launches[j].file] = writes[j].content

\* a real run over at least two hosts, no override, has returned
C8_Witness ==
    /\ IsSSH /\ HasResources /\ NoEndpointOverride /\ ~PerNodeTask
    /\ pc = "done" /\ ~args.dryrun
    /\ Len(Launches) >= 2

\* C9: with dryrun, run() spawns no process: no local shell, no remote
\* shell (mkdir or script) and no copy, for local and remote hosts, with a
\* shared file system or not.
C9_DryRunSpawnsNothing ==
    args.dryrun => \A i \in 1..Len(calls) : ~calls[i].spawn

\* a dry run has gone through a remote mkdir, a copy, a remote launch and a
\* local launch
C9_Witness ==
    /\ args.dryrun /\ pc = "done"
    /\ \E i \in 1..Len(calls) : calls[i].fn = "run_scp_command"
    /\ \E i \in 1..Len(calls) : calls[i].fn = "run_local_command"
    /\ \E i \in 1..Len(calls) :
          calls[i].fn = "run_ssh_command" /\ calls[i].what = "mkdir"
    /\ \E i \in 1..Len(calls) :
          calls[i].fn = "run_ssh_command" /\ calls[i].what = "bash"

\* <log_dir>/scripts/host_<rank>_<host>_run.sh
ExpectedRunScript(i, host) ==
    LogDir \o <<"/", "s", "c", "r", "i", "p", "t", "s", "/", "h", "o", "s", "t", "_">>
    \o str(i) \o <<"_">> \o host \o <<"_", "r", "u", "n", ".", "s", "h">>

\* two runs wrote the same scripts: the same paths in the same order, and
\* the same content wherever the launch command is the same
SameArtifacts(w1, w2) ==
    /\ Len(w1) = Len(w2)
    /\ \A i \in 1..Len(w1) :
          /\ w1[i].path = w2[i].path
          /\ w1[i].content.cmd = w2[i].content.cmd => w1[i].content = w2[i].content

\* a completed dry run and a completed real run of the same runner, with the
\* same with_test, in either order
DryAndRealDone ==
    /\ prev.done /\ pc = "done"
    /\ prev.args.dryrun # args.dryrun
    /\ prev.args.with_test = args.with_test

\* C10 as stated, for both runners: a dry run writes the run scripts a real
\* run writes.
C10_DryRunSameArtifactsBothRunners ==
    DryAndRealDone => SameArtifacts(prev.writes, writes)

\* C10 as amended: an SSHRunner dry run writes, for each host a real run
\* dispatches, the run script a real run writes (same path, same content for
\* the same launch command); a CloudRunner dry run writes no script.
C10_DryRunSameArtifactsSSH ==
    /\ (IsSSH /\ DryAndRealDone) => SameArtifacts(prev.writes, writes)
    /\ (IsSSH /\ HasResources /\ pc = "done") =>
          /\ Len(writes) = Min(Len(WrittenHosts), locals.nnodes)
          /\ \A i \in 1..Len(writes) :
                writes[i].path = ExpectedRunScript(i - 1, WrittenHosts[i].host)
    /\ (IsSSH /\ ~HasResources /\ pc = "done") =>
          /\ Len(writes) = 1
          /\ writes[1].path = ExpectedRunScript(0, Localhost)
    /\ \A i \in 1..Len(writes) :
          /\ writes[i].path \in DOMAIN files
          /\ files[writes[i].path] = writes[i].content
    /\ (~IsSSH /\ args.dryrun) => writes = <<>>

\* a dry run after a real run of an SSHRunner, two hosts each, the first
\* host's launch command the same in both
C10_Witness ==
    /\ IsSSH /\ DryAndRealDone /\ args.dryrun
    /\ Len(writes) = 2 /\ Len(prev.writes) = 2
    /\ writes[1].content.cmd = prev.writes[1].content.cmd
    /\ writes[1].content = prev.writes[1].content

\* C11: when a locally executed script (host "localhost", or a CloudRunner
\* launch) exits with a non-zero code c, the orchestrator echoes the captured
\* output and terminates its own process with exit code c (SystemExit(c)).
C11_LocalFailureExitsWithChildCode ==
    \A i \in 1..Len(calls) :
        (calls[i].fn = "run_local_command" /\ calls[i].spawn /\ calls[i].rc # 0) =>
            /\ calls[i].raised = "SystemExit"
            /\ calls[i].exit = Some(calls[i].rc)
            /\ calls[i].echoed

IsStopScript(content) == "lines" \in DOMAIN content

\* C12: if a step of dispatching host i fails during run() (remote mkdir,
\* copy, remote launch or local execution), run() ends there: the failed
\* call is the last call made (no step for a host of rank > i, no retry),
\* and no stop script has been generated or dispatched.
C12_FailureEndsRun ==
    /\ \A i \in 1..Len(calls) :
          ~calls[i].ok =>
              /\ i = Len(calls)
              /\ pc = "raised"
              /\ \A j \in 1..(i - 1) : calls[j].node_rank <= calls[i].node_rank
    /\ (pc = "raised" /\ cur.op = "run") =>
          /\ \A q \in DOMAIN files : ~IsStopScript(files[q])
          /\ \A i \in 1..Len(calls) :
                calls[i].what \in {"bash", "copy"} =>
                    calls[i].file \in {writes[j].path : j \in 1..Len(writes)}
          /\ \A j \in 1..Len(writes) : ~IsStopScript(writes[j].content)

\* a run over three hosts, all three to be dispatched, failed at the copy
\* for the second host after the first host was launched
C12_Witness ==
    /\ IsSSH /\ pc = "raised" /\ cur.op = "run"
    /\ Len(WrittenHosts) = 3 /\ locals.nnodes = 3
    /\ Len(Launches) = 1 /\ Launches[1].ok
    /\ calls[Len(calls)].fn = "run_scp_command"
    /\ calls[Len(calls)].node_rank = 1
    /\ ~calls[Len(calls)].ok

\* the (host, node_rank) pairs scripts were handed to, in order
Targets(cs) ==
    LET L == SelectSeq(cs, LAMBDA c : c.what = "bash")
    IN  [i \in 1..Len(L) |-> <<L[i].host, L[i].node_rank>>]

\* the first nnodes hosts written into the hostfile with their positions,
\* or ("localhost", 0) when there is no hostfile
ExpectedTargets ==
    IF ~HasResources THEN << <<Localhost, 0>> >>
    ELSE LET o == dopt(config.runner, "nnodes")
             k == IF IsNone(o) \/ Len(WrittenHosts) <= IntOf(Val(o))
                  THEN Len(WrittenHosts) ELSE IntOf(Val(o))
         IN  [i \in 1..k |-> <<WrittenHosts[i].host, i - 1>>]

\* C13: for one configuration and hostfile, the (host, node_rank) pairs a
\* returned SSHRunner.stop() handed stop scripts to are the pairs a returned
\* SSHRunner.run() handed start scripts to: the first nnodes hosts in
\* hostfile order, or ("localhost", 0) without a hostfile.
C13_StopMirrorsRun ==
    IsSSH =>
        /\ pc = "stopped" => Targets(calls) = ExpectedTargets
        /\ (pc = "done" /\ cur.op = "run") => Targets(calls) = ExpectedTargets
        /\ (pc = "stopped" /\ prev.done) => Targets(calls) = Targets(prev.calls)

\* a real run over three hosts with nnodes = 2 returned, then stop() returned
\* after two stop scripts
C13_Witness ==
    /\ IsSSH /\ pc = "stopped" /\ prev.done /\ ~prev.args.dryrun
    /\ Len(WrittenHosts) = 3
    /\ Len(Targets(calls)) = 2 /\ Len(Targets(prev.calls)) = 2
    /\ \A i \in 1..Len(writes) : IsStopScript(writes[i].content)

\* the paths whose content a generator call changed or created
Touched(w) ==
    {q \in DOMAIN w.after : q \notin DOMAIN w.before \/ w.before[q] # w.after[q]}

\* C14: _generate_run_script and _generate_stop_script are idempotent: two
\* calls with the same arguments write the same path, leave the same content
\* there (the later call overwrites, it does not append), leave every other
\* file alone, and leave the file executable.
C14_GeneratorsIdempotent ==
    \A i, j \in 1..Len(writes) :
        (i < j /\ writes[i].fn = writes[j].fn) =>
            /\ writes[i].path = writes[j].path
            /\ writes[j].path \in DOMAIN writes[j].after
            /\ writes[j].after[writes[j].path] = writes[i].after[writes[i].path]
            /\ writes[j].after[writes[j].path].mode = "755"
            /\ Touched(writes[i]) \subseteq {writes[i].path}
            /\ Touched(writes[j]) \subseteq {writes[j].path}
            /\ (j = i + 1 => Touched(writes[j]) = {})

\* the run script was generated twice over an older script at the same path
C14_Witness ==
    /\ pc = "gen" /\ Len(writes) = 2
    /\ writes[1].fn = "_generate_run_script"
    /\ writes[2].fn = "_generate_run_script"
    /\ writes[1].path \in DOMAIN writes[1].before
    /\ writes[1].before[writes[1].path] = OldRunScript
    /\ writes[2].after[writes[2].path].cmd = gen_in.cmd

\* the configuration marks the job as per-node
MarkedPerNode == dopt(config.runner, "per_node_task") = Some(BoolV(TRUE))

\* C15: when the configuration marks the job as per-node, every launch
\* command carries nnodes 1 and node_rank 0 and, unless rdzv_endpoint is
\* configured, the endpoint localhost:<master port>, whatever the host's
\* position, the negotiated nnodes and the master address.
C15_PerNodeForcesLocalSingle ==
    MarkedPerNode =>
        \A i \in 1..Len(writes) :
            LET cmd == writes[i].content.cmd
                port == dget(config.runner, "master_port", IntV(locals.port))
            IN  /\ FlagValue(cmd, "nnodes") = <<"1">>
                /\ FlagValue(cmd, "node_rank") = <<"0">>
                /\ ~dhas(config.runner, "rdzv_endpoint") =>
                       FlagValue(cmd, "rdzv_endpoint") = Localhost \o <<":">> \o fmt(port)

\* a per-node run with a configured master address has returned after
\* launching two hosts of a three-host table
C15_Witness ==
    /\ MarkedPerNode /\ pc = "done" /\ ~args.dryrun
    /\ dhas(config.runner, "master_addr")
    /\ Len(WrittenHosts) = 3 /\ locals.nnodes = 2
    /\ Len(writes) = 2 /\ Len(Launches) = 2
    /\ Launches[2].node_rank = 1

\* C16: with a task type other than the supported one, run() of either
\* runner raises ValueError before any run script is written and before any
\* local, remote-shell or copy command is issued.
C16_UnsupportedTaskFailsFast ==
    config.task_type # "train" =>
        /\ writes = <<>> /\ calls = <<>> /\ files = <<>>
        /\ pc \in {"new", "idle", "raised"}
        /\ (pc = "raised" /\ parsed.status # "raised") => error = "ValueError"

\* run(dryrun=True) of a CloudRunner with an unsupported task type has raised
C16_Witness ==
    /\ config.kind = "CloudRunner" /\ config.task_type = "inference"
    /\ pc = "raised" /\ error = "ValueError" /\ args.dryrun

\* no-shared-filesystem mode of the runner is on
NoSharedFs == dopt(config.runner, "no_shared_fs") = Some(BoolV(TRUE))

\* the steps dispatching a script to a host consists of, in order
ExpectedSteps(host) ==
    IF host = Localhost THEN << <<"run_local_command", "bash">> >>
    ELSE << <<"run_ssh_command", "mkdir">> >>
         \o (IF NoSharedFs THEN << <<"run_scp_command", "copy">> >> ELSE <<>>)
         \o << <<"run_ssh_command", "bash">> >>

\* the calls made for the host of rank r
CallsFor(r) == SelectSeq(calls, LAMBDA c : c.node_rank = r)

\* C17: in run() and in stop() of SSHRunner, the calls made for one host are
\* the first steps of the fixed order: for "localhost" one local shell
\* execution and no remote call; for another host the remote mkdir of the
\* scripts directory, the copy of the script if and only if
\* no-shared-filesystem mode is on, then the remote invocation of the script,
\* each step begun after the one before returned; all of them once the
\* operation has returned.
C17_StepOrder ==
    IsSSH =>
        /\ \A i \in 1..(Len(calls) - 1) :
              calls[i].ok /\ calls[i].node_rank <= calls[i + 1].node_rank
        /\ \A r \in {calls[i].node_rank : i \in 1..Len(calls)} :
              LET G == CallsFor(r)
                  E == ExpectedSteps(G[1].host)
              IN  /\ Len(G) <= Len(E)
                  /\ \A i \in 1..Len(G) :
                        /\ <<G[i].fn, G[i].what>> = E[i]
                        /\ G[i].host = G[1].host
                        /\ G[i].what = "mkdir" => G[i].file = ScriptsDir
                        /\ G[i].what # "mkdir" =>
                              /\ G[i].file \in DOMAIN files
                              /\ IsStopScript(files[G[i].file]) = (cur.op = "stop")
                  /\ (pc \in {"done", "stopped"} \/ r < cur.node_rank)
                        => Len(G) = Len(E)

\* stop() has returned after a real run() returned, no shared file system,
\* over a table holding a remote host and localhost
C17_Witness ==
    /\ IsSSH /\ NoSharedFs /\ pc = "stopped" /\ prev.done /\ ~prev.args.dryrun
    /\ Len(calls) = 4 /\ Len(prev.calls) = 4
    /\ \E i \in 1..4 : calls[i].fn = "run_scp_command"
    /\ \E i \in 1..4 : calls[i].fn = "run_local_command"

\* host_<rank>_<host>, the name a host's files begin with
HostStem(r, host) == <<"h", "o", "s", "t", "_">> \o str(r) \o <<"_">> \o host

\* <log_dir>/host_<rank>_<host>.output, or <log_dir>/host.output without a
\* shared file system
ExpectedOutputFile(r, host) ==
    LogDir \o <<"/">>
    \o (IF NoSharedFs THEN <<"h", "o", "s", "t">> ELSE HostStem(r, host))
    \o <<".", "o", "u", "t", "p", "u", "t">>

\* <log_dir>/pids/host_<rank>_<host>.pid
ExpectedPidFile(r, host) ==
    LogDir \o <<"/", "p", "i", "d", "s", "/">> \o HostStem(r, host)
    \o <<".", "p", "i", "d">>

\* C18: the run script written for a host has one execution clause, chosen
\* by mode: test mode runs the command with no redirection and no pid file;
\* background mode appends the output to the host output file and records
\* the pid in the host pid file; blocking mode appends the output and
\* records no pid.  SSHRunner writes background or test scripts; CloudRunner
\* writes blocking or test scripts and executes them locally.
C18_ExecutionClauseByMode ==
    (writes # <<>> /\ cur.op = "run") =>
        LET c == writes[Len(writes)].content
            out == ExpectedOutputFile(cur.node_rank, cur.host)
            pid == ExpectedPidFile(cur.node_rank, cur.host)
        IN  /\ c.clause \in {"test", "background", "blocking"}
            /\ (c.clause = "test") = args.with_test
            /\ c.clause = "test" => (c.output_file = <<>> /\ c.pid_file = <<>>)
            /\ c.clause = "background" => (c.output_file = out /\ c.pid_file = pid)
            /\ c.clause = "blocking" => (c.output_file = out /\ c.pid_file = <<>>)
            /\ IsSSH => c.clause # "blocking"
            /\ ~IsSSH =>
                  /\ c.clause # "background"
                  /\ \A i \in 1..Len(calls) : calls[i].fn = "run_local_command"

\* a CloudRunner on a host that is not named localhost has run its blocking
\* script locally
C18_Witness ==
    /\ ~IsSSH /\ pc = "done" /\ ~args.dryrun /\ ~args.with_test
    /\ cur.host = HostA
    /\ Len(calls) = 1 /\ calls[1].fn = "run_local_command" /\ calls[1].spawn
    /\ writes[1].content.clause = "blocking"

\* the launcher binary a launch command starts: its first token that is not
\* an environment assignment
RECURSIVE LauncherOf(_)
LauncherOf(cmd) ==
    IF cmd = <<>> THEN <<>>
    ELSE IF Head(cmd).kind = "env" THEN LauncherOf(Tail(cmd))
    ELSE Head(cmd).text

\* the stop script tests pid file f, kills by the recorded pid when it
\* exists and not by name, otherwise kills by name, and runs the after-stop
\* hook after both branches
StopScriptShape(c, f) ==
    /\ Len(c.lines) = 7
    /\ c.lines[1] = Stmt("if_file", f)
    /\ c.lines[2] = Stmt("pid_from", f)
    /\ c.lines[3].op = "pkill_P_pid"
    /\ c.lines[4].op = "else"
    /\ c.lines[5].op = "pkill_f"
    /\ c.lines[6].op = "fi"
    /\ c.lines[7] = Stmt("hook", config.after_stop)

\* stop() is writing stop scripts after a run() that wrote background scripts
StopAfterBackgroundRun ==
    /\ IsSSH /\ cur.op = "stop" /\ prev.done /\ ~prev.args.with_test
    /\ writes # <<>>

\* C19: the stop script for (host, node_rank) tests the pid file the
\* background run script for the same (host, node_rank) writes; if the file
\* exists it kills by the recorded pid and not by name, otherwise it kills by
\* name the launcher binary the job was started with; the after-stop hook
\* runs after both branches.
C19_StopScriptMatchesRunScript ==
    StopAfterBackgroundRun =>
        LET i == Len(writes)
            stop == writes[i].content
            run == prev.writes[i].content
        IN  /\ StopScriptShape(stop, run.pid_file)
            /\ stop.lines[5].arg = LauncherOf(run.cmd)

\* <details_dir>/<segment>/, what a per-host log directory begins with
LogDirPrefix(segment) ==
    LogDir \o <<"/", "d", "e", "t", "a", "i", "l", "s", "/">> \o segment \o <<"/">>

\* <log_dir>/<segment>.output
OutputFileOf(segment) ==
    LogDir \o <<"/">> \o segment \o <<".", "o", "u", "t", "p", "u", "t">>

\* C20: when no-shared-filesystem mode of the runner is on, the log
\* directory of the launch command and the host output file of the run
\* script both use the segment "host"; when it is off both use
\* host_<node_rank>_<host>.
C20_LogDirAndOutputAgree ==
    (writes # <<>> /\ cur.op = "run" /\ ~args.with_test) =>
        LET c == writes[Len(writes)].content
            segment == IF NoSharedFs THEN <<"h", "o", "s", "t">>
                       ELSE HostStem(cur.node_rank, cur.host)
        IN  /\ startswith(FlagValue(c.cmd, "log_dir"), LogDirPrefix(segment))
            /\ c.output_file = OutputFileOf(segment)


---------------------------------------------------------------------------
(* SSH runners whose configuration sets the options _get_runner_cmd leaves *)
(* out, boolean options of either value, other torchrun options, an        *)
(* nproc_per_node override or CUDA_VISIBLE_DEVICES, over hostfiles whose   *)
(* hosts declare different slot counts.                                    *)

Devices == <<"0", ",", "1", ",", "2">>

\* what bounds nproc_per_node besides the slots: runner.nproc_per_node and
\* experiment.envs.CUDA_VISIBLE_DEVICES
NprocCaps ==
    { [nproc |-> None, envs |-> <<>>],
      [nproc |-> Some(IntV(3)), envs |-> <<>>],
      [nproc |-> Some(IntV(1)), envs |-> <<>>],
      [nproc |-> None, envs |-> <<[k |-> "CUDA_VISIBLE_DEVICES", v |-> StrV(Devices)]>>] }

OptBools == {None, Some(BoolV(TRUE)), Some(BoolV(FALSE))}

\* experiment.runner with type, backend, master_addr, master_port, rdzv_id
\* and max_restarts all given or all left out, and with the boolean options
\* no_python and standalone of opposite values or left out
OptRunner(path, given, nproc, per_node, no_python) ==
    (IF given
     THEN <<[k |-> "type", v |-> StrV(<<"s", "s", "h">>)],
            [k |-> "backend", v |-> StrV(Mpirun)]>>
     ELSE <<>>)
    \o RunnerOptions(path, None, nproc, IF given THEN MasterGiven ELSE NoEndpoint,
                     per_node, None, None)
    \o Pair("no_python", no_python)
    \o Pair("standalone", IF IsNone(no_python) THEN None
                          ELSE Some(BoolV(~IsTrue(Val(no_python)))))
    \o (IF given
        THEN <<[k |-> "rdzv_id", v |-> StrV(<<"j">>)],
               [k |-> "max_restarts", v |-> IntV(0)]>>
        ELSE <<>>)

OptConfigs(path) ==
    {[MakeConfig("SSHRunner", OptRunner(path, given, cap.nproc, pn, np), "train")
        EXCEPT !.envs = cap.envs] :
        given \in BOOLEAN, cap \in NprocCaps, pn \in OptBools, np \in OptBools}

OptEntries ==
    { HostEntry(HostA, 2, None, Sp),
      HostEntry(HostB, 4, Some(<<"H">>), Sp) }

InitOpt ==
    /\ NegIdle /\ RunStart
    /\ parsed = Unset
    /\ \/ /\ hf_entries \in SeqsUpTo(OptEntries, MaxHosts)
          /\ hostfile = [path |-> "file", lines |-> RenderLines(hf_entries)]
          /\ config \in OptConfigs("file") \cup TwiceSSHConfigs("file")
       \/ /\ hf_entries = <<>>
          /\ hostfile = [path |-> "notfile", lines |-> <<>>]
          /\ config \in OptConfigs("notfile")
       \/ /\ hf_entries = <<>>
          /\ hostfile = [path |-> "absent", lines |-> <<>>]
          /\ config \in TwiceSSHConfigs("absent") \cup TwiceCloudConfigs

SpecOpt == InitOpt /\ [][Next]_vars

---------------------------------------------------------------------------
(* Properties of the launch commands of one run(). *)

\* the launch commands built so far, in the order they were built
BuiltCommands == [i \in 1..Len(writes) |-> writes[i].content.cmd]

SameValue(key) ==
    \A i, j \in 1..Len(BuiltCommands) :
        FlagValue(BuiltCommands[i], key) = FlagValue(BuiltCommands[j], key)

\* the least of the slots of a host, the nproc_per_node override and the
\* number of visible devices, whichever are given
NprocOf(slots) ==
    LET o == dopt(config.runner, "nproc_per_node")
        d == dopt(config.envs, "CUDA_VISIBLE_DEVICES")
        S == {slots} \cup (IF IsNone(o) THEN {} ELSE {IntOf(Val(o))})
                     \cup (IF IsNone(d) THEN {} ELSE {Len(split(Val(d).s, ","))})
    IN  CHOOSE m \in S : \A x \in S : m <= x

\* C21 as stated: all launch commands built in one run() carry the same
\* nnodes, the same rdzv_id and the same nproc_per_node, for every hostfile,
\* also one whose hosts declare different slot counts.
C21_SameNegotiatedValues ==
    SameValue("nnodes") /\ SameValue("rdzv_id") /\ SameValue("nproc_per_node")

\* C21 as amended: all launch commands built in one run() carry the same
\* nnodes and the same rdzv_id; over a hostfile the command of the host at
\* position i carries the nproc_per_node negotiated from that host's own
\* slot count (the least of it, the override and the visible devices).
C21_SameNnodesAndIdNprocPerHost ==
    /\ SameValue("nnodes") /\ SameValue("rdzv_id")
    /\ (IsSSH /\ HasResources) =>
          \A i \in 1..Len(BuiltCommands) :
              FlagValue(BuiltCommands[i], "nproc_per_node") =
                  str(NprocOf(WrittenHosts[i].slots))

\* a run over hosts of 2 and 4 slots has returned with two commands built,
\* whose nproc_per_node differ
C21_Witness ==
    /\ IsSSH /\ HasResources /\ pc = "done"
    /\ Len(BuiltCommands) = 2
    /\ WrittenHosts[1].slots # WrittenHosts[2].slots
    /\ FlagValue(BuiltCommands[1], "nproc_per_node") = <<"2">>
    /\ FlagValue(BuiltCommands[2], "nproc_per_node") = <<"4">>
    /\ FlagValue(BuiltCommands[1], "nnodes") = <<"2">>
    /\ FlagValue(BuiltCommands[2], "nnodes") = <<"2">>


---------------------------------------------------------------------------
(* Properties of the command _get_runner_cmd returns. *)

\* the options _get_runner_cmd is to leave out
Excluded == {"type", "backend", "per_node_task", "hostfile", "master_addr", "master_port"}

\* the options whose value _get_runner_cmd derives
Derived == {"nnodes", "node_rank", "nproc_per_node", "log_dir"}

\* the command without the leading exports of experiment.envs
RunnerPart(cmd) == SubSeq(cmd, Len(config.envs) + 1, Len(cmd))

FlagAt(cmd, key) == {p \in 1..Len(cmd) : cmd[p].kind = "flag" /\ cmd[p].key = key}

\* --key stands alone: what follows it is the next flag
Bare(cmd, key) ==
    /\ FlagAt(cmd, key) # {}
    /\ \A p \in FlagAt(cmd, key) : p < Len(cmd) /\ cmd[p + 1].kind = "flag"

\* --key is followed by a value
Valued(cmd, key) ==
    /\ FlagAt(cmd, key) # {}
    /\ \A p \in FlagAt(cmd, key) : p < Len(cmd) /\ cmd[p + 1].kind = "text"

\* C22: the launch command built for any host and any runner configuration
\* starts with the launcher binary and has no flag for type, backend,
\* per_node_task, hostfile, master_addr or master_port, also when the
\* configuration sets them; every other configured runner option is
\* forwarded: a boolean one as its bare flag when true and not at all when
\* false, any other one as its flag and a value (the configured value unless
\* the command derives it).
C22_ExcludedOutOthersForwarded ==
    \A i \in 1..Len(BuiltCommands) :
        LET cmd == RunnerPart(BuiltCommands[i])
            opts == config.runner
        IN  /\ \A p \in 1..Len(config.envs) : BuiltCommands[i][p].kind = "env"
            /\ cmd[1] = Text(fmt(dget(opts, "backend", StrV(Torchrun))))
            /\ \A key \in Excluded : FlagAt(cmd, key) = {}
            /\ \A n \in 1..Len(opts) :
                  opts[n].k \notin Excluded =>
                      IF opts[n].v.t = "bool"
                      THEN IF opts[n].v = BoolV(TRUE) THEN Bare(cmd, opts[n].k)
                           ELSE FlagAt(cmd, opts[n].k) = {}
                      ELSE /\ Valued(cmd, opts[n].k)
                           /\ opts[n].k \notin Derived =>
                                 FlagValue(cmd, opts[n].k) = fmt(opts[n].v)

\* a command has been built from a configuration that sets all six excluded
\* options (per_node_task to false), a true and a false boolean option and
\* max_restarts, with variables exported in front of it
C22_Witness ==
    /\ \A key \in Excluded : dhas(config.runner, key)
    /\ dopt(config.runner, "per_node_task") = Some(BoolV(FALSE))
    /\ dopt(config.runner, "no_python") = Some(BoolV(TRUE))
    /\ dopt(config.runner, "standalone") = Some(BoolV(FALSE))
    /\ dhas(config.runner, "max_restarts")
    /\ pc = "done" /\ Len(BuiltCommands) = 2
    /\ Bare(RunnerPart(BuiltCommands[2]), "no_python")
    /\ RunnerPart(BuiltCommands[2])[1] = Text(Mpirun)


---------------------------------------------------------------------------
(* The nnodes written into the commands against the hosts dispatched. *)

\* the launch commands of the scripts handed to hosts, in dispatch order
DispatchedCommands == [j \in 1..Len(Launches) |-> files[Launches[j].file].cmd]

\* C23: when SSHRunner.run() over a hostfile, per-node-task off, has returned
\* with every dispatch made, the nnodes written into every dispatched launch
\* command is at most the number of hosts of the hostfile and is the number
\* of hosts dispatched, and the node_rank values of the dispatched commands
\* are exactly 0 .. nnodes - 1, whatever the nnodes override (none, smaller
\* or larger than the hostfile, or an elastic range).
C23_NnodesIsHostsDispatched ==
    (IsSSH /\ HasResources /\ ~PerNodeTask /\ pc = "done") =>
        /\ \A j \in 1..Len(DispatchedCommands) :
              /\ FlagValue(DispatchedCommands[j], "nnodes") = str(Len(Launches))
              /\ Len(Launches) <= Len(WrittenHosts)
        /\ {FlagValue(DispatchedCommands[j], "node_rank") :
                j \in 1..Len(DispatchedCommands)}
              = {str(r) : r \in 0..(Len(Launches) - 1)}

\* a real run over two hosts whose configuration asks for more nodes than
\* the hostfile has returned with both hosts dispatched
C23_Witness ==
    /\ IsSSH /\ HasResources /\ ~PerNodeTask /\ pc = "done" /\ ~args.dryrun
    /\ dhas(config.runner, "nnodes")
    /\ IntOk(dget(config.runner, "nnodes", IntV(0)))
    /\ IntOf(dget(config.runner, "nnodes", IntV(0))) > Len(WrittenHosts)
    /\ Len(WrittenHosts) = 2
    /\ Len(DispatchedCommands) = 2
    /\ FlagValue(DispatchedCommands[2], "nnodes") = <<"2">>
    /\ FlagValue(DispatchedCommands[2], "node_rank") = <<"1">>

====
